---- MODULE Spec2Model ----
(***************************************************************************)
(* Model of the deepstory generation/resource pipeline:                    *)
(*   - tasks/task_manager.py : TaskManager (Redis queue, running set,      *)
(*     task records, semaphore-bounded workers, retry, crash recovery)     *)
(*   - engine/tracer.py      : ResourceTracker (futures per resource key)  *)
(*   - engine/consumer.py    : StreamingConsumer.stream                    *)
(* Every Redis command and every await is one step.                        *)
(***************************************************************************)
EXTENDS Integers, Sequences, FiniteSets, Bags, TLC

\* ------------------------------------------------------------------ bounds
NumTasks == 2       \* task ids that can be submitted
NumWorkers == 2     \* worker loops that start_workers can launch
MaxJobs == 1        \* queue config max_jobs (semaphore size)
MaxTries == 2       \* queue config max_tries
MaxCrashes == 2     \* process crashes followed by a restart
MaxExpired == 1     \* task records that reach their TTL
NumKeys == 1        \* resource keys of one request
NumFuts == 2        \* Future objects a tracker creates
NumCallers == 2     \* coroutines calling get / submit / clear at a time
NumEvents == 3      \* events one engine.run() yields at most
MaxQueue == 2       \* the stream's asyncio.Queue(maxsize=1000), scaled down
MaxVariants == 2    \* entries of one result's url_map
MaxDialogues == 2   \* Dialogue events of one portrait key that are yielded
MaxInits == 1       \* trackers initialised again for the same request id
NumChars == 3       \* characters that speak
NumCacheKeys == 2   \* (voice description, gender, age) triples
NumVoices == 2      \* voice ids of the media library
MaxCastings == 3    \* calls of _get_voice_id
MaxStops == 1       \* runs of a request that are stopped and invoked again
MaxChapters == 1    \* <sequence> elements of an outline
MaxScenes == 2      \* <scene> elements of one <sequence>
MaxLines == 2       \* dialogue / sound / narration elements of a scene script
ManyScenes == 11    \* scenes of a long chapter
ManyLines == 6      \* elements of a long scene script

Tasks == 1..NumTasks
Workers == 1..NumWorkers
NoTask == 0

VARIABLES
    \* ---- Redis (survives a crash)
    info,           \* tasks:info:<id>  : task record, or Absent
    queue,          \* queue:<name>     : list, index 1 = left end, Len = right end
    running_tasks,  \* tasks:running:<name> : set of ids
    \* ---- TaskManager process memory (lost by a crash)
    mgr,            \* "down" | "recovering" | "up" | "stopping" | "closed"
    semaphore,      \* QueueManager.semaphore._value
    wpc, wtask, winfo,  \* per worker loop: position, popped entry, local task_info
    requeues,       \* bag of _delayed_requeue coroutines
    subpc,          \* per task id: position of its submit_task call
    rec,            \* _recover_tasks: [todo, pc, tid, ti]
    retry_delay,    \* queue_config['retry_delay']
    rqhist,         \* history per task id: [fails, delays, pushed]
    active,         \* a has_active_tasks call: [pc, llen, ret]
    \* ---- bookkeeping of the environment
    crashes, expired,
    \* ---- ResourceTracker (engine/tracer.py)
    resources,      \* _resources: key -> [fid, task] (fid 0: key not tracked)
    fut, nfut,      \* the asyncio.Future objects created so far
    persisted,      \* redis hash tracker:<request>:resources: key -> task id
    calls,          \* get / submit / clear calls that are suspended at an await
    poll,           \* _poll_loop: [pc, todo, cur]
    hist,           \* history: what was settled, submitted and returned
    \* ---- StreamingConsumer.stream (engine/consumer.py)
    emitted,        \* history: the events engine.run() has yielded, as yielded
    chan,           \* the asyncio.Queue between _producer and the stream loop
    ppc, pev,       \* _producer: position, the item it is putting
    cpc, cur,       \* stream loop: position, the event it is resolving
    cfid,           \* the future the loop's tracker.get awaits (0: none)
    resolved,       \* _resolved: key -> cached url
    yielded,        \* history: the events the stream has yielded
    \* ---- one Dialogue event's portrait (consumer._extract_url)
    result,         \* what tracker.get(event.image_key) returned
    dialogue,       \* the Dialogue event: [emotion, image_url]
    dpc,            \* "off" | "image" (result in hand) | "yield"
    \* ---- OfflineConsumer, for one portrait key (engine/consumer.py)
    avail,          \* the key's future has settled with `result`
    opc,            \* "off" | "stream" | "ended"
    used_emotions,  \* _used_emotions[key] ({}: key not recorded)
    downloaded,     \* _downloaded[key]: "absent" | "path" | "None"
    written,        \* emotions whose image file is on disk
    downloads,      \* download coroutines: 0 is schedule_download's task,
                    \* d >= 1 the download_and_save task of dialogue d
    ohist,          \* history: dialogues yielded, what they referenced
    \* ---- RenpyConsumer script writer (engine/consumer.py)
    script_lines,   \* self.script_lines
    audio_files,    \* _downloaded of the audio keys: key -> "absent" | "path"
    script,         \* the validated lines generate_script returns
    spc,            \* "off" | "write" | "done"
    \* ---- the functions importable in the worker process
    unknown,        \* ids of the tasks whose function_name does not resolve
    voices,         \* StoryEngine.voices: cache_key -> voice_id (0: no entry)
    casting,        \* history of _get_voice_id: [n, got, last]
    \* ---- StoryEngine, the portraits of the characters (engine/producer.py)
    characters,     \* self.characters: name -> [known, age, periods]
    portraits,      \* portrait keys given to tracker.submit, as (name, age)
    scene_chars,    \* input: the <character> elements of each scene
    ipc,            \* [pc, i, said]: position, scene, last Dialogue yielded
    \* ---- StoryEngine.run (engine/producer.py)
    pkeys,          \* keys the event in hand still has to submit
    voice_desc,     \* future of the character's voice-description key:
                    \* "untracked" | "pending" | "result" | "cancelled"
    \* ---- StoryEngine.run over the storylets queue (engine/producer.py)
    think,          \* self.think is set (loaded from the cache or planned)
    story_script,   \* self.script: the outline, scenes per chapter (<<>>: "")
    storylets,      \* cache list story:<request>:storylets, index 1 = head
    shape,          \* input: what the script generator returns for a scene
    rpc,            \* run(): "off" | "infer" | "enqueue" | "start" | "loop"
                    \*        | "scene" | "done"
    scene,          \* _process_scene: [index, xml, event_idx]
    parser,         \* self.xml_parser: "clean" | "fed" | "broken"
    out,            \* history: the events run() has yielded
    plans,          \* history: requests made to dify.plan_story
    planned,        \* input: the outline dify.plan_story returns
    popped,         \* history: the work items run() has popped
    cache0          \* history: think / script / storylets found at start

\* Configuration and calls that the manager's other steps leave alone.
tmaux == <<retry_delay, active>>
tmvars == <<info, queue, running_tasks, mgr, semaphore, wpc, wtask, winfo,
            requeues, subpc, rec, crashes, expired, tmaux, rqhist>>
\* What the task manager's steps leave alone.
dlvars == <<avail, opc, used_emotions, downloaded, written, downloads, ohist>>
scvars == <<script_lines, audio_files, script, spc>>
ptvars == <<characters, portraits, scene_chars, ipc>>
vcvars == <<voices, casting, ptvars>>
stvars == <<think, story_script, storylets, shape, rpc, scene, parser, out,
            plans, planned, popped, cache0>>
offl == <<result, dialogue, dpc, dlvars, scvars, unknown, vcvars, stvars, pkeys,
          voice_desc>>
cons == <<emitted, chan, ppc, pev, cpc, cur, cfid, resolved, yielded, offl>>
trkcons == <<resources, fut, nfut, persisted, calls, poll, hist, cons>>
others == <<trkcons, tmaux, rqhist>>
vars == <<info, queue, running_tasks, mgr, semaphore, wpc, wtask, winfo,
          requeues, subpc, rec, crashes, expired, retry_delay, rqhist, active,
          resources, fut, nfut, persisted, calls, poll, hist,
          emitted, chan, ppc, pev, cpc, cur, cfid, resolved, yielded,
          result, dialogue, dpc,
          avail, opc, used_emotions, downloaded, written, downloads, ohist,
          script_lines, audio_files, script, spc, unknown, voices, casting,
          characters, portraits, scene_chars, ipc,
          pkeys, voice_desc,
          think, story_script, storylets, shape, rpc, scene, parser, out,
          plans, planned, popped, cache0>>

\* ------------------------------------------------------------ task record
\* TaskInfo: the fields the manager reads or writes after creation.
TaskInfo(st, rc, sa, ca, res, err) ==
    [status |-> st, retry_count |-> rc, started_at |-> sa,
     completed_at |-> ca, result |-> res, error |-> err]

\* No value under tasks:info:<id> (never written, or expired).
Absent == TaskInfo("absent", 0, FALSE, FALSE, FALSE, FALSE)

\* submit_task: the record created for a new task.
NewTaskInfo == TaskInfo("pending", 0, FALSE, FALSE, FALSE, FALSE)

Terminal(ti) == ti.status \in {"completed", "failed"}

\* A queue entry: the id, and (history only) which push put it there.
Entry(t, via) == [id |-> t, via |-> via]

\* A worker loop that holds no popped id.
NoEntry == Entry(NoTask, "none")

QueueIds == {queue[i].id : i \in 1..Len(queue)}

\* redis LPUSH / RPUSH / BRPOP on queue:<name>
LPush(q, e) == <<e>> \o q
RPush(q, e) == Append(q, e)
PopEnd(q) == q[Len(q)]
PopRest(q) == SubSeq(q, 1, Len(q) - 1)

\* _recover_tasks when it is not running; `recovered` keeps the ids the last
\* run re-queued (the code keeps their number, recovered_count).
IdleRec == [todo |-> {}, pc |-> "idle", tid |-> NoTask, ti |-> Absent,
            recovered |-> {}]

\* What the running process has seen of each task: failures of its function,
\* delays handed to _delayed_requeue, requeues pushed.  Nothing yet.
NoRqHist == [t \in Tasks |-> [fails |-> 0, delays |-> <<>>, pushed |-> 0]]

\* No has_active_tasks call is under way and none has returned; `began` keeps
\* the ids that were waiting or executing when the last call was made.
NoCheck == [pc |-> "idle", llen |-> 0, ret |-> "none", began |-> {}]

\* retry_delay lists of the queue configuration.
DefaultRetryDelay == <<1, 2>>
RetryDelays == {<<1>>, <<1, 2>>}

\* ---------------------------------------------------------------- Init
TMInitWith(delays) ==
    /\ retry_delay = delays
    /\ rqhist = NoRqHist
    /\ active = NoCheck
    /\ info = [t \in Tasks |-> Absent]
    /\ queue = <<>>
    /\ running_tasks = {}
    /\ mgr = "down"
    /\ semaphore = MaxJobs
    /\ wpc = [w \in Workers |-> "off"]
    /\ wtask = [w \in Workers |-> NoEntry]
    /\ winfo = [w \in Workers |-> Absent]
    /\ requeues = EmptyBag
    /\ subpc = [t \in Tasks |-> "none"]
    /\ rec = IdleRec
    /\ crashes = 0
    /\ expired = 0

TMInitFresh == TMInitWith(DefaultRetryDelay)

Keys == 1..NumKeys
Futs == 1..NumFuts
Callers == 1..NumCallers

\* A Future: pending, or done with a result, an exception or cancelled.
Pending == [state |-> "pending", val |-> "none"]
Done(state, val) == [state |-> state, val |-> val]

\* TrackedResource(key, future, task_id); fid 0 stands for `key not in
\* self._resources`.
Untracked == [fid |-> 0, task |-> NoTask]
Tracked(f, t) == [fid |-> f, task |-> t]

NoCall == [op |-> "none", pc |-> "idle", key |-> 0, fid |-> 0, tid |-> NoTask]
PollIdle == [pc |-> "sleep", todo |-> {}, cur |-> Untracked]

\* hist.first[k]: the first settlement of key k since it was last cleared;
\* hist.differ[k]: a get(k) that returned after it returned something else
\* than that settlement's value (or the default for an error);
\* hist.nsub[k]: tasks submitted for k since the last clear; hist.late: a
\* settle attempt met a future that was already done ("direct": only
\* set_result / set_exception did, "poll": the poll loop did);
\* hist.inits: trackers initialised after the first one; hist.recovered[k]:
\* the task id the hash held for k when the current tracker was initialised;
\* hist.refused: how the last submit to a queue that is not configured ended
\* ("error": it raised, "existing": it returned a handle) and for which key;
\* hist.cleared: clear_all_queues ran since the current tracker was
\* initialised.
NoHist == [first |-> [k \in Keys |-> "none"],
           differ |-> [k \in Keys |-> FALSE],
           nsub |-> [k \in Keys |-> 0], late |-> "none",
           inits |-> 0, recovered |-> [k \in Keys |-> NoTask],
           refused |-> [how |-> "none", key |-> 0],
           cleared |-> FALSE]

\* self.voices is empty and _get_voice_id has not been called.
NoCasting == [n |-> 0, got |-> [c \in 1..NumChars |-> 0],
              last |-> [name |-> 0, cache_key |-> 0, results |-> <<>>,
                        voice_id |-> 0]]
\* A name that self.characters has no entry for.
NotKnown == [known |-> FALSE, age |-> "", periods |-> {}]
\* No Dialogue has been yielded.
NoSaid == [character |-> 0, age |-> "", tracked |-> FALSE]
CastIdle ==
    /\ characters = [c \in 1..NumChars |-> NotKnown]
    /\ portraits = {}
    /\ scene_chars = <<>>
    /\ ipc = [pc |-> "off", i |-> 0, said |-> NoSaid]
VoicesIdle ==
    /\ voices = [k \in 1..NumCacheKeys |-> 0]
    /\ casting = NoCasting
    /\ CastIdle

TrackerInit ==
    /\ resources = [k \in Keys |-> Untracked]
    /\ fut = [f \in Futs |-> Pending]
    /\ nfut = 0
    /\ persisted = [k \in Keys |-> NoTask]
    /\ calls = [c \in Callers |-> NoCall]
    /\ poll = PollIdle
    /\ hist = NoHist

\* --------------------------------------------------------- narrative events
\* A NarrativeEvent: its number in the run, its type, its resource keys (0:
\* none) and the fields the consumer fills.
Event(n, type, vk, ik, ak, bk) ==
    [n |-> n, event_type |-> type, voice_key |-> vk, image_key |-> ik,
     audio_key |-> ak, background_key |-> bk,
     music_key |-> 0, ambient_key |-> 0, sound_key |-> 0,
     voice_url |-> "none", voice_duration |-> "none", image_url |-> "none",
     image_result |-> "none", audio_url |-> "none", background_url |-> "none",
     music_url |-> "none", ambient_url |-> "none"]

NoEvent == Event(0, "none", 0, 0, 0, 0)
\* The two items that end the queue: None, or the exception engine.run raised.
EndMark == Event(0, "None", 0, 0, 0, 0)
ErrMark == Event(0, "Exception", 0, 0, 0, 0)

KeyOrNone == {0} \cup Keys

\* The events engine.run() can yield as its n-th: the StoryEngine's (dialogue,
\* narration, scene_start with its music and ambient keys, sound, and the
\* events without keys) and the AudioEvent the stream looks for.
EventsAt(n) ==
    {Event(n, "dialogue", vk, ik, 0, 0) : vk \in KeyOrNone, ik \in KeyOrNone}
    \cup {Event(n, "narration", vk, 0, 0, 0) : vk \in KeyOrNone}
    \cup {Event(n, "audio", 0, 0, ak, 0) : ak \in KeyOrNone}
    \cup {[Event(n, "scene_start", 0, 0, 0, bk)
               EXCEPT !.music_key = mk, !.ambient_key = amk] :
             bk \in Keys, mk \in KeyOrNone, amk \in KeyOrNone}
    \cup {[Event(n, "sound", 0, 0, 0, 0) EXCEPT !.sound_key = sk] :
             sk \in Keys}
    \cup {Event(n, "other", 0, 0, 0, 0)}

\* _process_scene is not running.
NoScene == [index |-> <<>>, xml |-> <<>>, event_idx |-> 0]

\* No scene shape: the script generator is never asked.
NoShape == [root |-> FALSE, lines |-> 0, tag |-> "none", music |-> FALSE,
            narration_voice |-> FALSE]

\* No StoryEngine has been constructed.
StoryIdle ==
    /\ think = FALSE
    /\ story_script = <<>>
    /\ storylets = <<>>
    /\ shape = NoShape
    /\ rpc = "off"
    /\ scene = NoScene
    /\ parser = "clean"
    /\ out = <<>>
    /\ plans = 0
    /\ planned = <<>>
    /\ popped = <<>>
    /\ cache0 = [think |-> FALSE, script |-> <<>>, storylets |-> <<>>]

\* No StreamingConsumer.stream has been called.
StreamIdle ==
    /\ emitted = <<>>
    /\ chan = <<>>
    /\ ppc = "off"
    /\ pev = NoEvent
    /\ cpc = "off"
    /\ cur = NoEvent
    /\ cfid = 0
    /\ resolved = [k \in Keys |-> "none"]
    /\ yielded = <<>>
    /\ pkeys = <<>>
    /\ voice_desc = "untracked"

ConsumerInit == StoryIdle /\ StreamIdle

\* ------------------------------------------------- resource results
\* url_map: a dict, kept in insertion order as a sequence of entries.
UrlKeys == {"happy", "normal", "sad", "default"}
Urls == {"u1", "u2"}
UrlMaps ==
    {m \in UNION {[1..n -> [key : UrlKeys, url : Urls]] : n \in 0..MaxVariants} :
        \A i, j \in 1..Len(m) : m[i].key = m[j].key => i = j}

HasKey(m, key) == \E i \in 1..Len(m) : m[i].key = key
AtKey(m, key) == m[CHOOSE i \in 1..Len(m) : m[i].key = key].url
\* next(iter(url_map.values()), None)
FirstUrl(m) == IF m = <<>> THEN "none" ELSE m[1].url

\* What tracker.get can hand to the consumer: a PortraitResourceResult, another
\* ResourceResult, the dict a result becomes in a stored task record, its JSON
\* string, a plain url string, or None.
Result(type, rt, m, u) ==
    [type |-> type, resource_type |-> rt, url_map |-> m, url |-> u]
NoResult == Result("None", "none", <<>>, "none")
Results ==
    {Result("PortraitResourceResult", "portrait", m, "none") : m \in UrlMaps}
    \cup {Result("ResourceResult", "image", m, "none") : m \in UrlMaps}
    \cup {Result("dict", "portrait", m, "none") : m \in UrlMaps}
    \cup {Result("json", rt, m, "none") : rt \in {"portrait", "image"},
                                         m \in UrlMaps}
    \cup {Result("str", "none", <<>>, u) : u \in Urls}
    \cup {NoResult}

\* DialogueEvent.emotion: a tag, or the empty string.
Emotions == {"", "happy", "normal", "sad"}
Dialogue(emotion, url) == [emotion |-> emotion, image_url |-> url]
NoDialogue == Dialogue("", "none")

\* A download coroutine: position, the `attribute` it was given, whether its
\* used_emotions is the live set of _used_emotions or a set of its own, that
\* set, the index of the url it is at, and whether first_path is set.
Dl(pc, attribute, live, used, i, first) ==
    [pc |-> pc, attribute |-> attribute, live |-> live, used |-> used,
     i |-> i, first |-> first]
NoDl == Dl("free", "", FALSE, {}, 0, FALSE)
DlIds == 0..MaxDialogues

NoOHist == [n |-> 0, seen |-> {}, early |-> FALSE, timeouts |-> FALSE]

DownloadsIdle ==
    /\ avail = FALSE
    /\ used_emotions = {}
    /\ downloaded = "absent"
    /\ written = {}
    /\ downloads = [d \in DlIds |-> NoDl]
    /\ ohist = NoOHist

\* The resource keys of the script's items: item i uses key i.
Items == 1..MaxDialogues

ScriptEmpty ==
    /\ script_lines = <<>>
    /\ audio_files = [k \in Items |-> "absent"]
    /\ script = <<>>

\* Every submitted function_name resolves.
AllResolve == unknown = {}

PortraitIdle ==
    /\ spc = "off"
    /\ ScriptEmpty
    /\ result = NoResult
    /\ dialogue = NoDialogue
    /\ dpc = "off"
    /\ opc = "off"
    /\ DownloadsIdle

Init == TMInitFresh /\ TrackerInit /\ VoicesIdle /\ ConsumerInit /\ PortraitIdle
        /\ AllResolve

\* ------------------------------------------------------------ submit_task
\* submit_task, first await: SETEX tasks:info:<id> with the pending record.
\* Ids are fresh uuids: they are handed out in order.
submit_task_setex(t) ==
    /\ mgr \in {"up", "stopping"}
    /\ subpc[t] = "none"
    /\ \A u \in Tasks : u < t => subpc[u] # "none"
    /\ info' = [info EXCEPT ![t] = NewTaskInfo]
    /\ subpc' = [subpc EXCEPT ![t] = "lpush"]
    /\ UNCHANGED <<queue, running_tasks, mgr, semaphore, wpc, wtask, winfo,
                   requeues, rec, crashes, expired,
                   others>>

\* submit_task, second await: LPUSH queue:<name> id.
submit_task_lpush(t) ==
    /\ subpc[t] = "lpush"
    /\ queue' = LPush(queue, Entry(t, "submit"))
    /\ subpc' = [subpc EXCEPT ![t] = "done"]
    /\ UNCHANGED <<info, running_tasks, mgr, semaphore, wpc, wtask, winfo,
                   requeues, rec, crashes, expired,
                   others>>

\* ---------------------------------------------------------- start_workers
\* start_workers: self.running = True and one more _worker_loop is created.
\* A later call of start_workers adds loops to the ones already running.
start_workers(w) ==
    /\ mgr = "up"
    /\ wpc[w] = "off"
    /\ wpc' = [wpc EXCEPT ![w] = "brpop"]
    /\ UNCHANGED <<info, queue, running_tasks, mgr, semaphore, wtask, winfo,
                   requeues, subpc, rec, crashes, expired,
                   others>>

\* `while self.running` at the top of the loop.
LoopTopAgain == "brpop"
LoopTop == IF mgr = "up" THEN "brpop" ELSE "stopped"

\* `async with queue_manager.semaphore`: entered only while a slot is free.
SemaphoreFree == semaphore > 0

\* Leaving `async with queue_manager.semaphore`: the slot is given back.
SemaphoreKept(s) == s
SemaphoreRelease(s) == s + 1

\* _worker_loop: BRPOP returns an id; `async with semaphore` is entered at
\* once when a slot is free, otherwise the loop waits for one.
worker_loop_brpop(w) ==
    /\ wpc[w] = "brpop"
    /\ Len(queue) > 0
    /\ queue' = PopRest(queue)
    /\ wtask' = [wtask EXCEPT ![w] = PopEnd(queue)]
    /\ IF SemaphoreFree
         THEN /\ semaphore' = semaphore - 1
              /\ wpc' = [wpc EXCEPT ![w] = "get"]
         ELSE /\ semaphore' = semaphore
              /\ wpc' = [wpc EXCEPT ![w] = "sem"]
    /\ UNCHANGED <<info, running_tasks, mgr, winfo, requeues, subpc, rec,
                   crashes, expired,
                   others>>

\* _worker_loop: BRPOP timed out (or the loop is re-entered) after shutdown.
worker_loop_stop(w) ==
    /\ wpc[w] = "brpop"
    /\ mgr # "up"
    /\ wpc' = [wpc EXCEPT ![w] = "stopped"]
    /\ UNCHANGED <<info, queue, running_tasks, mgr, semaphore, wtask, winfo,
                   requeues, subpc, rec, crashes, expired,
                   others>>

\* _worker_loop: a waiter on the semaphore gets a released slot.
worker_loop_acquire(w) ==
    /\ wpc[w] = "sem"
    /\ SemaphoreFree
    /\ semaphore' = semaphore - 1
    /\ wpc' = [wpc EXCEPT ![w] = "get"]
    /\ UNCHANGED <<info, queue, running_tasks, mgr, wtask, winfo, requeues,
                   subpc, rec, crashes, expired,
                   others>>

\* _execute_task: get_task_status(task_id). No record: return (the finally
\* block does nothing), the semaphore is released and the loop goes on.
\* Otherwise the local task_info becomes RUNNING with started_at set.
execute_task_get(w) ==
    /\ wpc[w] = "get"
    /\ IF info[wtask[w].id] = Absent
         THEN /\ semaphore' = SemaphoreRelease(semaphore)
              /\ wpc' = [wpc EXCEPT ![w] = LoopTop]
              /\ wtask' = [wtask EXCEPT ![w] = NoEntry]
              /\ winfo' = winfo
         ELSE /\ semaphore' = semaphore
              /\ wpc' = [wpc EXCEPT ![w] = "setex_running"]
              /\ wtask' = wtask
              /\ winfo' = [winfo EXCEPT ![w] =
                     [info[wtask[w].id] EXCEPT !.status = "running",
                                            !.started_at = TRUE]]
    /\ UNCHANGED <<info, queue, running_tasks, mgr, requeues, subpc, rec,
                   crashes, expired,
                   others>>

\* _execute_task: _update_task_info(task_info) with status RUNNING.
execute_task_setex_running(w) ==
    /\ wpc[w] = "setex_running"
    /\ info' = [info EXCEPT ![wtask[w].id] = winfo[w]]
    /\ wpc' = [wpc EXCEPT ![w] = "sadd"]
    /\ UNCHANGED <<queue, running_tasks, mgr, semaphore, wtask, winfo,
                   requeues, subpc, rec, crashes, expired,
                   others>>

\* _execute_task: SADD tasks:running:<queue> id.
execute_task_sadd(w) ==
    /\ wpc[w] = "sadd"
    /\ running_tasks' = running_tasks \cup {wtask[w].id}
    /\ wpc' = [wpc EXCEPT ![w] = "call"]
    /\ UNCHANGED <<info, queue, mgr, semaphore, wtask, winfo, requeues,
                   subpc, rec, crashes, expired,
                   others>>

\* _call_function: import_module / getattr find the function; if not, it
\* raises (ModuleNotFoundError, AttributeError).
Resolves(t) == t \notin unknown

\* _execute_task: _call_function returned; the local record is COMPLETED.
execute_task_completed(w) ==
    /\ wpc[w] = "call"
    /\ Resolves(wtask[w].id)
    /\ winfo' = [winfo EXCEPT ![w] =
           [@ EXCEPT !.status = "completed", !.completed_at = TRUE,
                     !.result = TRUE]]
    /\ wpc' = [wpc EXCEPT ![w] = "srem"]
    /\ UNCHANGED <<info, queue, running_tasks, mgr, semaphore, wtask,
                   requeues, subpc, rec, crashes, expired,
                   others>>

\* _handle_task_failure on the local record: retry_count += 1, then RETRYING
\* while retry_count < max_tries, else FAILED with completed_at.
handle_task_failure_once_more(ti) ==
    IF ti.retry_count + 1 <= MaxTries
      THEN [ti EXCEPT !.error = TRUE, !.retry_count = @ + 1,
                      !.status = "retrying"]
      ELSE [ti EXCEPT !.error = TRUE, !.retry_count = @ + 1,
                      !.status = "failed", !.completed_at = TRUE]
handle_task_failure(ti) ==
    IF ti.retry_count + 1 < MaxTries
      THEN [ti EXCEPT !.error = TRUE, !.retry_count = @ + 1,
                      !.status = "retrying"]
      ELSE [ti EXCEPT !.error = TRUE, !.retry_count = @ + 1,
                      !.status = "failed", !.completed_at = TRUE]

\* _handle_task_failure: the delay of the requeue after the retry_count-th
\* failure; past the end of the list the last delay is used.
RetryDelayLast(delays, retry_count) == delays[Len(delays)]
RetryDelay(delays, retry_count) ==
    IF retry_count <= Len(delays) THEN delays[retry_count]
                                  ELSE delays[Len(delays)]

\* _execute_task: _call_function raised (error, timeout, unknown function).
execute_task_raised(w) ==
    /\ wpc[w] = "call"
    /\ rqhist' = [rqhist EXCEPT ![wtask[w].id].fails = @ + 1]
    /\ winfo' = [winfo EXCEPT ![w] = handle_task_failure(@)]
    /\ wpc' = [wpc EXCEPT ![w] =
           IF handle_task_failure(winfo[w]).status = "retrying"
             THEN "setex_retrying" ELSE "srem"]
    /\ UNCHANGED <<info, queue, running_tasks, mgr, semaphore, wtask,
                   requeues, subpc, rec, crashes, expired,
                   trkcons, tmaux>>

\* A _delayed_requeue coroutine: sleeping, or holding the record it read.
Requeue(t, pc, ti) == [tid |-> t, pc |-> pc, ti |-> ti]

\* _handle_task_failure: _update_task_info(RETRYING), then
\* asyncio.create_task(_delayed_requeue(...)).
handle_task_failure_setex(w) ==
    /\ wpc[w] = "setex_retrying"
    /\ info' = [info EXCEPT ![wtask[w].id] = winfo[w]]
    /\ requeues' = requeues (+) SetToBag({Requeue(wtask[w].id, "sleep", Absent)})
    /\ wpc' = [wpc EXCEPT ![w] = "srem"]
    /\ rqhist' = [rqhist EXCEPT ![wtask[w].id].delays =
           Append(@, RetryDelay(retry_delay, winfo[w].retry_count))]
    /\ UNCHANGED <<queue, running_tasks, mgr, semaphore, wtask, winfo,
                   subpc, rec, crashes, expired,
                   trkcons, tmaux>>

\* _execute_task, finally: SREM tasks:running:<queue> id.
execute_task_srem(w) ==
    /\ wpc[w] = "srem"
    /\ running_tasks' = running_tasks \ {wtask[w].id}
    /\ wpc' = [wpc EXCEPT ![w] = "setex_final"]
    /\ UNCHANGED <<info, queue, mgr, semaphore, wtask, winfo, requeues,
                   subpc, rec, crashes, expired,
                   others>>

\* _execute_task, finally: _update_task_info(task_info); the semaphore is
\* released on leaving `async with` and the loop tests self.running.
execute_task_setex_final(w) ==
    /\ wpc[w] = "setex_final"
    /\ info' = [info EXCEPT ![wtask[w].id] = winfo[w]]
    /\ semaphore' = SemaphoreRelease(semaphore)
    /\ wpc' = [wpc EXCEPT ![w] = LoopTop]
    /\ wtask' = [wtask EXCEPT ![w] = NoEntry]
    /\ winfo' = [winfo EXCEPT ![w] = Absent]
    /\ UNCHANGED <<queue, running_tasks, mgr, requeues, subpc, rec, crashes,
                   expired,
                   others>>

\* -------------------------------------------------------- _delayed_requeue
\* After the sleep: get_task_status; only a RETRYING record goes on.
delayed_requeue_get(r) ==
    /\ r.pc = "sleep"
    /\ BagIn(r, requeues)
    /\ requeues' =
         IF info[r.tid] # Absent /\ info[r.tid].status = "retrying"
           THEN (requeues (-) SetToBag({r})) (+)
                SetToBag({Requeue(r.tid, "setex",
                                  [info[r.tid] EXCEPT !.status = "pending"])})
           ELSE requeues (-) SetToBag({r})
    /\ UNCHANGED <<info, queue, running_tasks, mgr, semaphore, wpc, wtask,
                   winfo, subpc, rec, crashes, expired,
                   others>>

\* _update_task_info(task_info) with status PENDING.
delayed_requeue_setex(r) ==
    /\ r.pc = "setex"
    /\ BagIn(r, requeues)
    /\ info' = [info EXCEPT ![r.tid] = r.ti]
    /\ requeues' = (requeues (-) SetToBag({r})) (+)
                   SetToBag({Requeue(r.tid, "rpush", r.ti)})
    /\ UNCHANGED <<queue, running_tasks, mgr, semaphore, wpc, wtask, winfo,
                   subpc, rec, crashes, expired,
                   others>>

\* Where _delayed_requeue puts the id: RPUSH, the end BRPOP takes from.
RequeuePushLeft(q, e) == LPush(q, e)
RequeuePush(q, e) == RPush(q, e)

delayed_requeue_rpush(r) ==
    /\ r.pc = "rpush"
    /\ BagIn(r, requeues)
    /\ queue' = RequeuePush(queue, Entry(r.tid, "retry"))
    /\ requeues' = requeues (-) SetToBag({r})
    /\ rqhist' = [rqhist EXCEPT ![r.tid].pushed = @ + 1]
    /\ UNCHANGED <<info, running_tasks, mgr, semaphore, wpc, wtask, winfo,
                   subpc, rec, crashes, expired,
                   trkcons, tmaux>>

\* ----------------------------------------------------------- initialize
\* initialize -> _recover_tasks: SMEMBERS tasks:running:<queue>.
recover_tasks_smembers ==
    /\ mgr = "down"
    /\ mgr' = "recovering"
    /\ rec' = [todo |-> running_tasks, pc |-> "next", tid |-> NoTask,
               ti |-> Absent, recovered |-> {}]
    /\ UNCHANGED <<info, queue, running_tasks, semaphore, wpc, wtask, winfo,
                   requeues, subpc, crashes, expired,
                   others>>

\* _recover_tasks: GET tasks:info:<id> for the next id of the snapshot. With
\* a record: the local copy is reset to PENDING, started_at None. Without:
\* the id is skipped.
recover_tasks_get(t) ==
    /\ mgr = "recovering"
    /\ rec.pc = "next"
    /\ t \in rec.todo
    /\ rec' = IF info[t] = Absent
                THEN [rec EXCEPT !.todo = @ \ {t}]
                ELSE [rec EXCEPT !.todo = @ \ {t}, !.pc = "setex", !.tid = t,
                      !.ti = [info[t] EXCEPT !.status = "pending",
                                             !.started_at = FALSE]]
    /\ UNCHANGED <<info, queue, running_tasks, mgr, semaphore, wpc, wtask,
                   winfo, requeues, subpc, crashes, expired,
                   others>>

recover_tasks_setex ==
    /\ mgr = "recovering"
    /\ rec.pc = "setex"
    /\ info' = [info EXCEPT ![rec.tid] = rec.ti]
    /\ rec' = [rec EXCEPT !.pc = "lpush"]
    /\ UNCHANGED <<queue, running_tasks, mgr, semaphore, wpc, wtask, winfo,
                   requeues, subpc, crashes, expired,
                   others>>

recover_tasks_lpush ==
    /\ mgr = "recovering"
    /\ rec.pc = "lpush"
    /\ queue' = LPush(queue, Entry(rec.tid, "recover"))
    /\ rec' = [rec EXCEPT !.pc = "srem"]
    /\ UNCHANGED <<info, running_tasks, mgr, semaphore, wpc, wtask, winfo,
                   requeues, subpc, crashes, expired,
                   others>>

recover_tasks_srem ==
    /\ mgr = "recovering"
    /\ rec.pc = "srem"
    /\ running_tasks' = running_tasks \ {rec.tid}
    /\ rec' = [rec EXCEPT !.pc = "next", !.tid = NoTask, !.ti = Absent,
                          !.recovered = @ \cup {rec.tid}]
    /\ UNCHANGED <<info, queue, mgr, semaphore, wpc, wtask, winfo, requeues,
                   subpc, crashes, expired,
                   others>>

\* initialize returns: the manager is ready for submit_task / start_workers.
initialize_done ==
    /\ mgr = "recovering"
    /\ rec.pc = "next"
    /\ rec.todo = {}
    /\ mgr' = "up"
    /\ rec' = [rec EXCEPT !.pc = "idle"]
    /\ UNCHANGED <<info, queue, running_tasks, semaphore, wpc, wtask, winfo,
                   requeues, subpc, crashes, expired,
                   others>>

\* -------------------------------------------------------- has_active_tasks
\* A loop that has popped an id and has not finished with it.
Holding(w) == wpc[w] \notin {"off", "brpop", "stopped"}

\* Task t is in the queue, waits for a scheduled requeue, or is held by a loop.
StillActive(t) ==
    \/ \E i \in 1..Len(queue) : queue[i].id = t
    \/ \E r \in BagToSet(requeues) : r.tid = t
    \/ \E w \in Workers : Holding(w) /\ wtask[w].id = t

\* has_active_tasks, first await: LLEN queue:<name>.
has_active_tasks_llen ==
    /\ mgr = "up"
    /\ active.pc = "idle"
    /\ active' = [active EXCEPT !.pc = "scard", !.llen = Len(queue),
                                !.began = {t \in Tasks : StillActive(t)}]
    /\ UNCHANGED <<info, queue, running_tasks, mgr, semaphore, wpc, wtask,
                   winfo, requeues, subpc, rec, crashes, expired,
                   trkcons, retry_delay, rqhist>>

\* What has_active_tasks returns for the two counts it read.
ActiveAnswer(queue_length, running) ==
    IF queue_length > 0 \/ running > 0 THEN "true" ELSE "false"

\* has_active_tasks, second await: SCARD tasks:running:<name>, then return.
has_active_tasks_scard ==
    /\ active.pc = "scard"
    /\ active' = [active EXCEPT
           !.pc = "idle",
           !.ret = ActiveAnswer(active.llen, Cardinality(running_tasks))]
    /\ UNCHANGED <<info, queue, running_tasks, mgr, semaphore, wpc, wtask,
                   winfo, requeues, subpc, rec, crashes, expired,
                   trkcons, retry_delay, rqhist>>

\* ------------------------------------------------------------- shutdown
\* shutdown: self.running = False, then gather(*self.workers).
shutdown ==
    /\ mgr = "up"
    /\ mgr' = "stopping"
    /\ UNCHANGED <<info, queue, running_tasks, semaphore, wpc, wtask, winfo,
                   requeues, subpc, rec, crashes, expired,
                   others>>

\* shutdown: every worker loop has ended; close_redis().
shutdown_done ==
    /\ mgr = "stopping"
    /\ \A w \in Workers : wpc[w] \in {"off", "stopped"}
    /\ mgr' = "closed"
    /\ UNCHANGED <<info, queue, running_tasks, semaphore, wpc, wtask, winfo,
                   requeues, subpc, rec, crashes, expired,
                   others>>

\* ------------------------------------------------------------ environment
\* The process dies (or exits after shutdown) and is started again: all that
\* is not in Redis is lost.
Crash ==
    /\ mgr # "down"
    /\ crashes < MaxCrashes
    /\ crashes' = crashes + 1
    /\ mgr' = "down"
    /\ semaphore' = MaxJobs
    /\ wpc' = [w \in Workers |-> "off"]
    /\ wtask' = [w \in Workers |-> NoEntry]
    /\ winfo' = [w \in Workers |-> Absent]
    /\ requeues' = EmptyBag
    /\ subpc' = [t \in Tasks |-> IF subpc[t] = "lpush" THEN "lost" ELSE subpc[t]]
    /\ rec' = IdleRec
    /\ rqhist' = NoRqHist
    /\ UNCHANGED <<info, queue, running_tasks, expired,
                   trkcons, tmaux>>

\* Redis drops tasks:info:<id> when its TTL (keep_result) runs out.
Expire(t) ==
    /\ info[t] # Absent
    /\ expired < MaxExpired
    /\ expired' = expired + 1
    /\ info' = [info EXCEPT ![t] = Absent]
    /\ UNCHANGED <<queue, running_tasks, mgr, semaphore, wpc, wtask, winfo,
                   requeues, subpc, rec, crashes,
                   others>>

TMNext ==
    \/ \E t \in Tasks : submit_task_setex(t)
    \/ \E t \in Tasks : submit_task_lpush(t)
    \/ \E w \in Workers : start_workers(w)
    \/ \E w \in Workers : worker_loop_brpop(w)
    \/ \E w \in Workers : worker_loop_stop(w)
    \/ \E w \in Workers : worker_loop_acquire(w)
    \/ \E w \in Workers : execute_task_get(w)
    \/ \E w \in Workers : execute_task_setex_running(w)
    \/ \E w \in Workers : execute_task_sadd(w)
    \/ \E w \in Workers : execute_task_completed(w)
    \/ \E w \in Workers : execute_task_raised(w)
    \/ \E w \in Workers : handle_task_failure_setex(w)
    \/ \E w \in Workers : execute_task_srem(w)
    \/ \E w \in Workers : execute_task_setex_final(w)
    \/ \E r \in BagToSet(requeues) : delayed_requeue_get(r)
    \/ \E r \in BagToSet(requeues) : delayed_requeue_setex(r)
    \/ \E r \in BagToSet(requeues) : delayed_requeue_rpush(r)
    \/ recover_tasks_smembers
    \/ \E t \in Tasks : recover_tasks_get(t)
    \/ recover_tasks_setex
    \/ recover_tasks_lpush
    \/ recover_tasks_srem
    \/ initialize_done
    \/ shutdown
    \/ shutdown_done
    \/ \E t \in Tasks : Expire(t)

\* The task manager with crashes and restarts, from an empty Redis.
Next == TMNext \/ Crash

Spec == Init /\ [][Next]_vars

\* The steps of worker loop w while the task function returns.
WorkerSteps(w) ==
    \/ worker_loop_brpop(w)
    \/ execute_task_get(w)
    \/ execute_task_setex_running(w)
    \/ execute_task_sadd(w)
    \/ execute_task_completed(w)
    \/ execute_task_srem(w)
    \/ execute_task_setex_final(w)

\* A manager that is initialised on an empty Redis, whose workers are
\* started and whose task functions return: no crash, no expiry, no shutdown.
NextQueue ==
    \/ recover_tasks_smembers
    \/ initialize_done
    \/ \E w \in Workers : start_workers(w)
    \/ \E t \in Tasks : submit_task_setex(t)
    \/ \E t \in Tasks : submit_task_lpush(t)
    \/ \E w \in Workers : worker_loop_brpop(w)
    \/ \E w \in Workers : worker_loop_acquire(w)
    \/ \E w \in Workers : execute_task_get(w)
    \/ \E w \in Workers : execute_task_setex_running(w)
    \/ \E w \in Workers : execute_task_sadd(w)
    \/ \E w \in Workers : execute_task_completed(w)
    \/ \E w \in Workers : execute_task_srem(w)
    \/ \E w \in Workers : execute_task_setex_final(w)

SpecQueue == Init /\ [][NextQueue]_vars

\* The event loop runs every coroutine that can run; initialize() and
\* start_workers() are called; asyncio.Semaphore wakes its waiters in turn,
\* so a waiter that can get a slot again and again does get one.
FairQueue ==
    /\ SpecQueue
    /\ WF_vars(recover_tasks_smembers)
    /\ WF_vars(initialize_done)
    /\ \A t \in Tasks : WF_vars(submit_task_lpush(t))
    /\ \A w \in Workers : WF_vars(start_workers(w))
    /\ \A w \in Workers : WF_vars(WorkerSteps(w))
    /\ \A w \in Workers : SF_vars(worker_loop_acquire(w))

\* One TaskManager from initialize() on, no crash. Redis is empty or as a
\* crashed process left it during executions: at most max_jobs ids in the
\* running set, their records RUNNING, the ids popped from the queue.
TMInitSeeded ==
    /\ \E S \in SUBSET Tasks :
         /\ Cardinality(S) <= MaxJobs
         /\ \A t \in S : \A u \in Tasks : u < t => u \in S
         /\ \E rc \in 0..(MaxTries - 1) :
              info = [t \in Tasks |->
                        IF t \in S THEN TaskInfo("running", rc, TRUE, FALSE,
                                                 FALSE, rc > 0)
                                   ELSE Absent]
         /\ running_tasks = S
         /\ subpc = [t \in Tasks |-> IF t \in S THEN "done" ELSE "none"]
    /\ queue = <<>>
    /\ mgr = "down"
    /\ semaphore = MaxJobs
    /\ wpc = [w \in Workers |-> "off"]
    /\ wtask = [w \in Workers |-> NoEntry]
    /\ winfo = [w \in Workers |-> Absent]
    /\ requeues = EmptyBag
    /\ rec = IdleRec
    /\ crashes = 0
    /\ expired = 0
    /\ retry_delay = DefaultRetryDelay
    /\ rqhist = NoRqHist
    /\ active = NoCheck

InitManager == TMInitSeeded /\ TrackerInit /\ VoicesIdle /\ ConsumerInit /\ PortraitIdle
               /\ AllResolve

\* A fresh manager and tasks of which some name a function that the worker
\* process cannot resolve.
InitUnknown ==
    /\ TMInitFresh
    /\ TrackerInit /\ VoicesIdle
    /\ ConsumerInit
    /\ PortraitIdle
    /\ unknown \in SUBSET Tasks

NextManager == TMNext

SpecManager == InitManager /\ [][NextManager]_vars

SpecUnknown == InitUnknown /\ [][Next]_vars

\* =========================================================================
\* ResourceTracker (engine/tracer.py)
\* ------------------------------------------------------------- retries
\* The sleep of _delayed_requeue (a whole number of seconds) outlasts the two
\* Redis calls of the finally block of the _execute_task that scheduled it.
FinallyDone(t) ==
    \A w \in Workers : wtask[w].id = t => wpc[w] \notin {"srem", "setex_final"}

delayed_requeue_wake(r) ==
    /\ FinallyDone(r.tid)
    /\ delayed_requeue_get(r)

\* A manager on an empty Redis whose task functions may raise: no crash, no
\* expiry, no shutdown.
InitRetry ==
    /\ \E delays \in RetryDelays : TMInitWith(delays)
    /\ TrackerInit /\ VoicesIdle /\ ConsumerInit /\ PortraitIdle /\ AllResolve

NextRetry ==
    \/ recover_tasks_smembers
    \/ initialize_done
    \/ \E w \in Workers : start_workers(w)
    \/ \E t \in Tasks : submit_task_setex(t)
    \/ \E t \in Tasks : submit_task_lpush(t)
    \/ \E w \in Workers : worker_loop_brpop(w)
    \/ \E w \in Workers : worker_loop_acquire(w)
    \/ \E w \in Workers : execute_task_get(w)
    \/ \E w \in Workers : execute_task_setex_running(w)
    \/ \E w \in Workers : execute_task_sadd(w)
    \/ \E w \in Workers : execute_task_completed(w)
    \/ \E w \in Workers : execute_task_raised(w)
    \/ \E w \in Workers : handle_task_failure_setex(w)
    \/ \E w \in Workers : execute_task_srem(w)
    \/ \E w \in Workers : execute_task_setex_final(w)
    \/ \E r \in BagToSet(requeues) : delayed_requeue_wake(r)
    \/ \E r \in BagToSet(requeues) : delayed_requeue_setex(r)
    \/ \E r \in BagToSet(requeues) : delayed_requeue_rpush(r)

SpecRetry == InitRetry /\ [][NextRetry]_vars

\* A manager whose queue runs as many jobs at once as it has worker loops
\* (start_workers starts max_jobs loops by default); a sleep of
\* _delayed_requeue is not compared with the time the Redis calls take.
InitRace ==
    /\ retry_delay \in RetryDelays
    /\ rqhist = NoRqHist
    /\ active = NoCheck
    /\ info = [t \in Tasks |-> Absent]
    /\ queue = <<>>
    /\ running_tasks = {}
    /\ mgr = "down"
    /\ semaphore = NumWorkers
    /\ wpc = [w \in Workers |-> "off"]
    /\ wtask = [w \in Workers |-> NoEntry]
    /\ winfo = [w \in Workers |-> Absent]
    /\ requeues = EmptyBag
    /\ subpc = [t \in Tasks |-> "none"]
    /\ rec = IdleRec
    /\ crashes = 0
    /\ expired = 0
    /\ TrackerInit /\ VoicesIdle /\ ConsumerInit /\ PortraitIdle /\ AllResolve

\* With a slot for every loop, BRPOP never has to wait for the semaphore.
NextRace ==
    \/ recover_tasks_smembers
    \/ initialize_done
    \/ \E w \in Workers : start_workers(w)
    \/ \E t \in Tasks : submit_task_setex(t)
    \/ \E t \in Tasks : submit_task_lpush(t)
    \/ \E w \in Workers : worker_loop_brpop(w)
    \/ \E w \in Workers : execute_task_get(w)
    \/ \E w \in Workers : execute_task_setex_running(w)
    \/ \E w \in Workers : execute_task_sadd(w)
    \/ \E w \in Workers : execute_task_completed(w)
    \/ \E w \in Workers : execute_task_raised(w)
    \/ \E w \in Workers : handle_task_failure_setex(w)
    \/ \E w \in Workers : execute_task_srem(w)
    \/ \E w \in Workers : execute_task_setex_final(w)
    \/ \E r \in BagToSet(requeues) : delayed_requeue_get(r)
    \/ \E r \in BagToSet(requeues) : delayed_requeue_setex(r)
    \/ \E r \in BagToSet(requeues) : delayed_requeue_rpush(r)

SpecRace == InitRace /\ [][NextRace]_vars

\* The same manager, asked now and then whether it has active tasks.
NextActive ==
    \/ recover_tasks_smembers
    \/ initialize_done
    \/ \E w \in Workers : start_workers(w)
    \/ \E t \in Tasks : submit_task_setex(t)
    \/ \E t \in Tasks : submit_task_lpush(t)
    \/ \E w \in Workers : worker_loop_brpop(w)
    \/ \E w \in Workers : worker_loop_acquire(w)
    \/ \E w \in Workers : execute_task_get(w)
    \/ \E w \in Workers : execute_task_setex_running(w)
    \/ \E w \in Workers : execute_task_sadd(w)
    \/ \E w \in Workers : execute_task_completed(w)
    \/ \E w \in Workers : execute_task_raised(w)
    \/ \E w \in Workers : handle_task_failure_setex(w)
    \/ \E w \in Workers : execute_task_srem(w)
    \/ \E w \in Workers : execute_task_setex_final(w)
    \/ \E r \in BagToSet(requeues) : delayed_requeue_wake(r)
    \/ \E r \in BagToSet(requeues) : delayed_requeue_setex(r)
    \/ \E r \in BagToSet(requeues) : delayed_requeue_rpush(r)
    \/ has_active_tasks_llen
    \/ has_active_tasks_scard

SpecActive == InitRetry /\ [][NextActive]_vars

\* The same manager with shutdown(): gather(*self.workers) waits for the
\* loops, Redis answers every command, BRPOP returns within its timeout and
\* a task function returns or raises (wait_for bounds it).
NextShutdown ==
    \/ recover_tasks_smembers
    \/ initialize_done
    \/ \E w \in Workers : start_workers(w)
    \/ \E t \in Tasks : submit_task_setex(t)
    \/ \E t \in Tasks : submit_task_lpush(t)
    \/ \E w \in Workers : worker_loop_brpop(w)
    \/ \E w \in Workers : worker_loop_stop(w)
    \/ \E w \in Workers : worker_loop_acquire(w)
    \/ \E w \in Workers : execute_task_get(w)
    \/ \E w \in Workers : execute_task_setex_running(w)
    \/ \E w \in Workers : execute_task_sadd(w)
    \/ \E w \in Workers : execute_task_completed(w)
    \/ \E w \in Workers : execute_task_raised(w)
    \/ \E w \in Workers : handle_task_failure_setex(w)
    \/ \E w \in Workers : execute_task_srem(w)
    \/ \E w \in Workers : execute_task_setex_final(w)
    \/ \E r \in BagToSet(requeues) : delayed_requeue_wake(r)
    \/ \E r \in BagToSet(requeues) : delayed_requeue_setex(r)
    \/ \E r \in BagToSet(requeues) : delayed_requeue_rpush(r)
    \/ shutdown
    \/ shutdown_done

SpecShutdown == InitRetry /\ [][NextShutdown]_vars

FairShutdown ==
    /\ SpecShutdown
    /\ \A w \in Workers : WF_vars(WorkerSteps(w))
    /\ \A w \in Workers : WF_vars(handle_task_failure_setex(w))
    /\ \A w \in Workers : WF_vars(worker_loop_stop(w))
    /\ \A w \in Workers : SF_vars(worker_loop_acquire(w))
    /\ WF_vars(shutdown_done)

\* =========================================================================
\* What a tracker step leaves alone in the task manager.
tmrest == <<running_tasks, mgr, semaphore, wpc, wtask, winfo, requeues, rec,
            crashes, tmaux, rqhist>>

IsDone(f) == fut[f].state # "pending"

\* `if not resource.future.done(): resource.future.set_result(...)`
\* (set_result and set_exception).
SetIfPending(f, d) == IF IsDone(f) THEN fut ELSE [fut EXCEPT ![f] = d]

\* _poll_loop: future.set_result / set_exception without a done() test right
\* before it; on a done future asyncio raises InvalidStateError, which the
\* loop's `except Exception` logs.
PollSettleAlways(f, d) == [fut EXCEPT ![f] = d]
PollSettle(f, d) == IF IsDone(f) THEN fut ELSE [fut EXCEPT ![f] = d]

\* What `await future` gives get(): the result, else (exception, cancelled)
\* the default.
GetResultRaw(f) == fut[f].val
GetResult(f) == IF fut[f].state = "result" THEN fut[f].val ELSE "default"

\* History: future f gets outcome d; it counts for key k when f is k's
\* current handle and k has no settlement yet.
Settled(h, f, d, by) ==
    [h EXCEPT !.first = [k \in Keys |->
                            IF resources[k].fid = f /\ ~IsDone(f)
                               /\ h.first[k] = "none"
                              THEN (IF d.state = "result" THEN d.val
                                                         ELSE d.state)
                              ELSE h.first[k]],
              !.late = IF IsDone(f) /\ @ # "poll" THEN by ELSE @]

\* A caller that is not inside a call (callers are interchangeable: the
\* lowest free one makes the next call).
CanCall(c) ==
    /\ calls[c].pc = "idle"
    /\ \A d \in Callers : d < c => calls[d].pc # "idle"

\* History: get(k) returns r; it counts once k has a settlement, and not when
\* k was cleared while the get was waiting.
Expected(first) == IF first \in {"direct", "task"} THEN first ELSE "default"

Returned(h, k, r) ==
    IF k \in Keys
      THEN [h EXCEPT !.differ[k] =
               @ \/ (h.first[k] # "none" /\ r # Expected(h.first[k]))]
      ELSE h

\* Bounds: a submit is begun only while a task id and a Future are left for
\* it.
InSubmit(pcs) == Cardinality({c \in Callers : calls[c].op = "submit"
                                              /\ calls[c].pc \in pcs})
CanSubmitMore ==
    /\ nfut + InSubmit({"setex", "lpush"}) < NumFuts
    /\ Cardinality({t \in Tasks : subpc[t] = "none"}) > InSubmit({"setex"})

\* register(key): a new Future for a key that is not tracked.
register(k) ==
    /\ resources[k] = Untracked
    /\ nfut + InSubmit({"setex", "lpush"}) < NumFuts
    /\ nfut' = nfut + 1
    /\ resources' = [resources EXCEPT ![k] = Tracked(nfut + 1, NoTask)]
    /\ UNCHANGED <<fut, persisted, calls, poll, hist, tmvars, cons>>

\* set_result / set_exception(key, ...): register the key if needed, then
\* settle its future unless it is done.
set_direct(k, d) ==
    /\ IF resources[k] = Untracked
         THEN /\ nfut + InSubmit({"setex", "lpush"}) < NumFuts
              /\ nfut' = nfut + 1
              /\ resources' = [resources EXCEPT ![k] = Tracked(nfut + 1, NoTask)]
              /\ fut' = [fut EXCEPT ![nfut + 1] = d]
              /\ hist' = [hist EXCEPT !.first[k] =
                               IF @ = "none"
                                 THEN (IF d.state = "result" THEN d.val
                                                            ELSE d.state)
                                 ELSE @]
         ELSE /\ nfut' = nfut
              /\ resources' = resources
              /\ fut' = SetIfPending(resources[k].fid, d)
              /\ hist' = Settled(hist, resources[k].fid, d, "direct")
    /\ UNCHANGED <<persisted, calls, poll, tmvars, cons>>

set_result(k) == set_direct(k, Done("result", "direct"))

set_exception(k) == set_direct(k, Done("error", "none"))

\* get(key, timeout): register the key if needed and await its future. A
\* done future is returned from without suspending.
get_call(c, k) ==
    /\ CanCall(c)
    /\ IF resources[k] = Untracked
         THEN /\ nfut + InSubmit({"setex", "lpush"}) < NumFuts
              /\ nfut' = nfut + 1
              /\ resources' = [resources EXCEPT ![k] = Tracked(nfut + 1, NoTask)]
              /\ calls' = [calls EXCEPT ![c] =
                     [NoCall EXCEPT !.op = "get", !.pc = "wait", !.key = k,
                                    !.fid = nfut + 1]]
              /\ hist' = hist
         ELSE /\ nfut' = nfut
              /\ resources' = resources
              /\ IF IsDone(resources[k].fid)
                   THEN /\ calls' = calls
                        /\ hist' = Returned(hist, k, GetResult(resources[k].fid))
                   ELSE /\ calls' = [calls EXCEPT ![c] =
                               [NoCall EXCEPT !.op = "get", !.pc = "wait",
                                   !.key = k, !.fid = resources[k].fid]]
                        /\ hist' = hist
    /\ UNCHANGED <<fut, persisted, poll, tmvars, cons>>

\* get: the awaited future is done; the coroutine resumes and returns.
get_resume(c) ==
    /\ calls[c].op = "get" /\ calls[c].pc = "wait"
    /\ IsDone(calls[c].fid)
    /\ calls' = [calls EXCEPT ![c] = NoCall]
    /\ hist' = Returned(hist, calls[c].key, GetResult(calls[c].fid))
    /\ UNCHANGED <<resources, fut, nfut, persisted, poll, tmvars, cons>>

\* get: asyncio.wait_for(future, timeout) runs out: wait_for cancels the
\* future it waits for and get returns the default.
get_timeout(c) ==
    /\ calls[c].op = "get" /\ calls[c].pc = "wait"
    /\ ~IsDone(calls[c].fid)
    /\ fut' = [fut EXCEPT ![calls[c].fid] = Done("cancelled", "none")]
    /\ hist' = Returned(Settled(hist, calls[c].fid, Done("cancelled", "none"),
                                 "direct"),
                        calls[c].key, "default")
    /\ calls' = [calls EXCEPT ![c] = NoCall]
    /\ UNCHANGED <<resources, nfut, persisted, poll, tmvars, cons>>

\* submit(key, ...): `if key in self._resources and not future.done()`.
AlreadyTracked(k) == resources[k] # Untracked /\ ~IsDone(resources[k].fid)

\* submit: unless the existing future is returned (no change of state),
\* submit_task is awaited. The call keeps the done handle it found, if any.
submit_call(c, k) ==
    /\ CanCall(c)
    /\ ~AlreadyTracked(k)
    /\ CanSubmitMore
    /\ calls' = [calls EXCEPT ![c] =
                    [NoCall EXCEPT !.op = "submit", !.pc = "setex", !.key = k,
                                   !.fid = resources[k].fid]]
    /\ UNCHANGED <<resources, fut, nfut, persisted, poll, hist, tmvars, cons>>

\* submit -> submit_task: SETEX of the new task's record.
submit_setex(c, t) ==
    /\ calls[c].op = "submit" /\ calls[c].pc = "setex"
    /\ subpc[t] = "none"
    /\ \A u \in Tasks : u < t => subpc[u] # "none"
    /\ info' = [info EXCEPT ![t] = NewTaskInfo]
    /\ subpc' = [subpc EXCEPT ![t] = "lpush"]
    /\ calls' = [calls EXCEPT ![c].pc = "lpush", ![c].tid = t]
    /\ UNCHANGED <<resources, fut, nfut, persisted, poll, hist, queue,
                   expired, tmrest, cons>>

\* submit -> submit_task: LPUSH; back in submit a new Future replaces the
\* key's entry in _resources.
submit_lpush(c) ==
    /\ calls[c].op = "submit" /\ calls[c].pc = "lpush"
    /\ queue' = LPush(queue, Entry(calls[c].tid, "submit"))
    /\ subpc' = [subpc EXCEPT ![calls[c].tid] = "done"]
    /\ nfut' = nfut + 1
    /\ resources' = [resources EXCEPT ![calls[c].key] =
                        Tracked(nfut + 1, calls[c].tid)]
    /\ hist' = [hist EXCEPT !.nsub[calls[c].key] = @ + 1]
    /\ calls' = [calls EXCEPT ![c].pc = "hset", ![c].fid = nfut + 1]
    /\ UNCHANGED <<fut, persisted, poll, info, expired, tmrest, cons>>

\* submit -> _persist_resource: HSET key -> {task_id, queue}.
submit_hset(c) ==
    /\ calls[c].op = "submit" /\ calls[c].pc = "hset"
    /\ persisted' = [persisted EXCEPT ![calls[c].key] = calls[c].tid]
    /\ calls' = [calls EXCEPT ![c] = NoCall]
    /\ UNCHANGED <<resources, fut, nfut, poll, hist, tmvars, cons>>

\* clear(key): del self._resources[key], then HDEL is awaited.
clear_call(c, k) ==
    /\ CanCall(c)
    /\ resources[k] # Untracked
    /\ resources' = [resources EXCEPT ![k] = Untracked]
    /\ calls' = [d \in Callers |->
                   IF d = c
                     THEN [NoCall EXCEPT !.op = "clear", !.pc = "hdel", !.key = k]
                   ELSE IF calls[d].op = "get" /\ calls[d].key = k
                     THEN [calls[d] EXCEPT !.key = 0]
                   ELSE calls[d]]
    /\ hist' = [hist EXCEPT !.first[k] = "none", !.differ[k] = FALSE,
                            !.nsub[k] = 0]
    /\ UNCHANGED <<fut, nfut, persisted, poll, tmvars, cons>>

clear_hdel(c) ==
    /\ calls[c].op = "clear" /\ calls[c].pc = "hdel"
    /\ persisted' = [persisted EXCEPT ![calls[c].key] = NoTask]
    /\ calls' = [calls EXCEPT ![c] = NoCall]
    /\ UNCHANGED <<resources, fut, nfut, poll, hist, tmvars, cons>>

\* _poll_loop: after the sleep, `list(self._resources.items())`.
poll_snapshot ==
    /\ poll.pc = "sleep"
    /\ poll' = [pc |-> "iter",
                todo |-> {[key |-> k, res |-> resources[k]] :
                             k \in {j \in Keys : resources[j] # Untracked}},
                cur |-> Untracked]
    /\ UNCHANGED <<resources, fut, nfut, persisted, calls, hist, tmvars, cons>>

\* _poll_loop: next resource of the list; direct-mode and done ones are
\* skipped, for the others get_task_status is awaited.
poll_iter(item) ==
    /\ poll.pc = "iter"
    /\ item \in poll.todo
    /\ poll' = IF item.res.task = NoTask \/ IsDone(item.res.fid)
                 THEN [poll EXCEPT !.todo = @ \ {item}]
                 ELSE [poll EXCEPT !.todo = @ \ {item}, !.pc = "status",
                                   !.cur = item.res]
    /\ UNCHANGED <<resources, fut, nfut, persisted, calls, hist, tmvars, cons>>

\* The outcome the poll loop derives from the task record.
PollOutcome(ti) ==
    IF ti = Absent THEN Done("error", "none")
    ELSE IF ti.status = "completed" THEN Done("result", "task")
    ELSE IF ti.status = "failed" THEN Done("error", "none")
    ELSE Pending

\* _poll_loop: get_task_status returned; the resource's future is settled
\* from the record (not found, COMPLETED, FAILED) or left alone.
poll_status ==
    /\ poll.pc = "status"
    /\ IF PollOutcome(info[poll.cur.task]) = Pending
         THEN UNCHANGED <<fut, hist>>
         ELSE /\ fut' = PollSettle(poll.cur.fid, PollOutcome(info[poll.cur.task]))
              /\ hist' = Settled(hist, poll.cur.fid,
                                 PollOutcome(info[poll.cur.task]), "poll")
    /\ poll' = [poll EXCEPT !.pc = "iter", !.cur = Untracked]
    /\ UNCHANGED <<resources, nfut, persisted, calls, tmvars, cons>>

\* _poll_loop: the list is done, asyncio.sleep(poll_interval).
poll_sleep ==
    /\ poll.pc = "iter"
    /\ poll.todo = {}
    /\ poll' = PollIdle
    /\ UNCHANGED <<resources, fut, nfut, persisted, calls, hist, tmvars, cons>>

\* A worker loop takes the id at the pop end and runs it to its terminal
\* record: _execute_task as a whole (COMPLETED, or FAILED after max_tries).
execute_task_whole(ok) ==
    /\ Len(queue) > 0
    /\ queue' = PopRest(queue)
    /\ info[PopEnd(queue).id] # Absent
    /\ info' = [info EXCEPT ![PopEnd(queue).id] =
           IF ok THEN TaskInfo("completed", 0, TRUE, TRUE, TRUE, FALSE)
                 ELSE TaskInfo("failed", MaxTries, TRUE, TRUE, FALSE, TRUE)]
    /\ UNCHANGED <<subpc, expired, tmrest, others>>

\* A tracker on a task manager that is initialised; the worker loops are
\* summarised by execute_task_whole.
InitTracker ==
    /\ info = [t \in Tasks |-> Absent]
    /\ queue = <<>>
    /\ running_tasks = {}
    /\ mgr = "up"
    /\ semaphore = MaxJobs
    /\ wpc = [w \in Workers |-> "off"]
    /\ wtask = [w \in Workers |-> NoEntry]
    /\ winfo = [w \in Workers |-> Absent]
    /\ requeues = EmptyBag
    /\ subpc = [t \in Tasks |-> "none"]
    /\ rec = IdleRec
    /\ crashes = 0
    /\ expired = 0
    /\ retry_delay = DefaultRetryDelay
    /\ rqhist = NoRqHist
    /\ active = NoCheck
    /\ TrackerInit /\ VoicesIdle
    /\ ConsumerInit
    /\ PortraitIdle
    /\ AllResolve

NextTracker ==
    \/ \E k \in Keys : register(k)
    \/ \E k \in Keys : set_result(k)
    \/ \E k \in Keys : set_exception(k)
    \/ \E c \in Callers, k \in Keys : get_call(c, k)
    \/ \E c \in Callers : get_resume(c)
    \/ \E c \in Callers : get_timeout(c)
    \/ \E c \in Callers, k \in Keys : submit_call(c, k)
    \/ \E c \in Callers, t \in Tasks : submit_setex(c, t)
    \/ \E c \in Callers : submit_lpush(c)
    \/ \E c \in Callers : submit_hset(c)
    \/ \E c \in Callers, k \in Keys : clear_call(c, k)
    \/ \E c \in Callers : clear_hdel(c)
    \/ poll_snapshot
    \/ \E item \in poll.todo : poll_iter(item)
    \/ poll_status
    \/ poll_sleep
    \/ \E ok \in BOOLEAN : execute_task_whole(ok)
    \/ \E t \in Tasks : Expire(t)

SpecTracker == InitTracker /\ [][NextTracker]_vars

\* _recover_from_redis: the task id json.loads finds under "task_id".
ReattachNone(t) == NoTask
Reattach(t) == t

\* _recover_from_redis: the n-th entry of the hash gets the n-th new Future.
RecoveredFid(k) ==
    Cardinality({j \in Keys : j <= k /\ persisted[j] # NoTask})

\* A new ResourceTracker for the same request id: initialize() ->
\* _recover_from_redis registers every entry of the hash with a new Future
\* and its task id. The old tracker's futures, calls and poll loop are gone,
\* and so is the LPUSH of a submit_task that was under way.
recover_from_redis ==
    /\ hist.inits < MaxInits
    /\ resources' = [k \in Keys |->
                        IF persisted[k] = NoTask THEN Untracked
                        ELSE Tracked(RecoveredFid(k), Reattach(persisted[k]))]
    /\ fut' = [f \in Futs |-> Pending]
    /\ nfut' = Cardinality({k \in Keys : persisted[k] # NoTask})
    /\ calls' = [c \in Callers |-> NoCall]
    /\ poll' = PollIdle
    /\ subpc' = [t \in Tasks |->
                    IF subpc[t] = "lpush" THEN "lost" ELSE subpc[t]]
    /\ hist' = [NoHist EXCEPT !.inits = hist.inits + 1,
                              !.recovered = persisted]
    /\ UNCHANGED <<persisted, info, queue, expired, tmrest, cons>>

\* -------------------------------------------- submit to an unknown queue
\* config['queues']: the queue of the model, and a name that is not there.
QueueNames == {"default", "nowhere"}
Configured(q) == q = "default"

\* submit_task: `if queue not in self.queue_managers: raise ValueError`,
\* before the record is made or anything is awaited.
submit_task_unknown_queue(q) ==
    /\ ~Configured(q)
    /\ hist' = [hist EXCEPT !.refused = [how |-> "error", key |-> 0]]
    /\ UNCHANGED <<resources, fut, nfut, persisted, calls, poll, tmvars, cons>>

\* ResourceTracker.submit: a key whose handle is pending gets that handle
\* back; otherwise submit_task is awaited, and its ValueError leaves submit
\* before the Future is created and before _persist_resource.
SubmitOutcomeQuiet(q, tracked) ==
    IF tracked \/ ~Configured(q) THEN "existing" ELSE "task"
SubmitOutcome(q, tracked) ==
    IF tracked THEN "existing"
    ELSE IF ~Configured(q) THEN "error" ELSE "task"

submit_unknown_queue(c, k, q) ==
    /\ CanCall(c)
    /\ ~Configured(q)
    /\ hist' = [hist EXCEPT !.refused =
                   [how |-> SubmitOutcome(q, AlreadyTracked(k)), key |-> k]]
    /\ UNCHANGED <<resources, fut, nfut, persisted, calls, poll, tmvars, cons>>

\* Task mode, with submissions to a queue that is not configured.
NextRefuse ==
    \/ \E c \in Callers, k \in Keys : submit_call(c, k)
    \/ \E c \in Callers, t \in Tasks : submit_setex(c, t)
    \/ \E c \in Callers : submit_lpush(c)
    \/ \E c \in Callers : submit_hset(c)
    \/ \E c \in Callers, k \in Keys : clear_call(c, k)
    \/ \E c \in Callers : clear_hdel(c)
    \/ poll_snapshot
    \/ \E item \in poll.todo : poll_iter(item)
    \/ poll_status
    \/ poll_sleep
    \/ \E ok \in BOOLEAN : execute_task_whole(ok)
    \/ \E q \in QueueNames : submit_task_unknown_queue(q)
    \/ \E c \in Callers, k \in Keys, q \in QueueNames :
          submit_unknown_queue(c, k, q)

SpecRefuse == InitTracker /\ [][NextRefuse]_vars

\* Task mode only: submit, clear, the poll loop, the workers, and new
\* trackers.
NextRecover ==
    \/ \E c \in Callers, k \in Keys : submit_call(c, k)
    \/ \E c \in Callers, t \in Tasks : submit_setex(c, t)
    \/ \E c \in Callers : submit_lpush(c)
    \/ \E c \in Callers : submit_hset(c)
    \/ \E c \in Callers, k \in Keys : clear_call(c, k)
    \/ \E c \in Callers : clear_hdel(c)
    \/ poll_snapshot
    \/ \E item \in poll.todo : poll_iter(item)
    \/ poll_status
    \/ poll_sleep
    \/ \E ok \in BOOLEAN : execute_task_whole(ok)
    \/ \E t \in Tasks : Expire(t)
    \/ recover_from_redis

SpecRecover == InitTracker /\ [][NextRecover]_vars

\* generate_story_stream, after create_story_engine has initialised the
\* engine (tracker recovery included): task_manager.clear_all_queues()
\* deletes queue:<name>, tasks:running:<name> and every tasks:info:* key,
\* whatever request they belong to.
clear_all_queues ==
    /\ hist.inits > 0
    /\ ~hist.cleared
    /\ queue' = <<>>
    /\ running_tasks' = {}
    /\ info' = [t \in Tasks |-> Absent]
    /\ hist' = [hist EXCEPT !.cleared = TRUE]
    /\ UNCHANGED <<resources, fut, nfut, persisted, calls, poll, subpc,
                   mgr, semaphore, wpc, wtask, winfo, requeues, rec, crashes,
                   expired, tmaux, rqhist, cons>>

\* A request that is streamed again: a new engine and tracker for the same
\* request id, no record expires in the meantime.
NextIsolation ==
    \/ \E c \in Callers, k \in Keys : submit_call(c, k)
    \/ \E c \in Callers, t \in Tasks : submit_setex(c, t)
    \/ \E c \in Callers : submit_lpush(c)
    \/ \E c \in Callers : submit_hset(c)
    \/ \E c \in Callers, k \in Keys : clear_call(c, k)
    \/ \E c \in Callers : clear_hdel(c)
    \/ poll_snapshot
    \/ \E item \in poll.todo : poll_iter(item)
    \/ poll_status
    \/ poll_sleep
    \/ \E ok \in BOOLEAN : execute_task_whole(ok)
    \/ recover_from_redis
    \/ clear_all_queues

SpecIsolation == InitTracker /\ [][NextIsolation]_vars


\* =========================================================================
\* StreamingConsumer.stream (engine/consumer.py)
\* =========================================================================
trkrest == <<persisted, calls, poll, hist, tmvars, offl>>

\* asyncio.Queue: put at the tail, get from the head.
QueuePutFront(q, e) == <<e>> \o q
QueuePut(q, e) == Append(q, e)

\* stream(): the queue is created and _producer is started as a task.
stream_start ==
    /\ cpc = "off"
    /\ cpc' = "get"
    /\ ppc' = "run"
    /\ UNCHANGED <<emitted, chan, pev, cur, cfid, resolved, yielded,
                   resources, fut, nfut, trkrest>>

\* _producer: engine.run() yields its next event.
producer_run(e) ==
    /\ ppc = "run"
    /\ Len(emitted) < NumEvents
    /\ e \in EventsAt(Len(emitted) + 1)
    /\ emitted' = Append(emitted, e)
    /\ pev' = e
    /\ ppc' = "put"
    /\ UNCHANGED <<chan, cpc, cur, cfid, resolved, yielded,
                   resources, fut, nfut, trkrest>>

\* _producer: `await queue.put(event)`, which waits while the queue is full.
producer_put ==
    /\ ppc = "put"
    /\ Len(chan) < MaxQueue
    /\ chan' = QueuePut(chan, pev)
    /\ pev' = NoEvent
    /\ ppc' = "run"
    /\ UNCHANGED <<emitted, cpc, cur, cfid, resolved, yielded,
                   resources, fut, nfut, trkrest>>

\* _producer: engine.run() is exhausted (None is put next) or raises (the
\* exception is put next).
producer_end(mark) ==
    /\ ppc = "run"
    /\ pev' = mark
    /\ ppc' = "last"
    /\ UNCHANGED <<emitted, chan, cpc, cur, cfid, resolved, yielded,
                   resources, fut, nfut, trkrest>>

\* _producer: `await queue.put(None)` / `await queue.put(e)`; the coroutine
\* ends (pev keeps how: None, or the exception).
producer_put_end ==
    /\ ppc = "last"
    /\ Len(chan) < MaxQueue
    /\ chan' = QueuePut(chan, pev)
    /\ ppc' = "done"
    /\ UNCHANGED <<emitted, pev, cpc, cur, cfid, resolved, yielded,
                   resources, fut, nfut, trkrest>>

\* The resources the loop waits for, in its order, for an event.
Steps(e) ==
    IF e.event_type = "dialogue"
      THEN (IF e.voice_key # 0 THEN <<"voice">> ELSE <<>>)
           \o (IF e.image_key # 0 THEN <<"image">> ELSE <<>>)
    ELSE IF e.event_type = "narration"
      THEN (IF e.voice_key # 0 THEN <<"voice">> ELSE <<>>)
    ELSE IF e.event_type = "audio"
      THEN (IF e.audio_key # 0 THEN <<"audio">> ELSE <<>>)
    ELSE IF e.event_type = "scene_start"
      THEN (IF e.background_key # 0 THEN <<"background">> ELSE <<>>)
    ELSE <<>>

FirstStep(e) == IF Steps(e) = <<>> THEN "yield" ELSE Steps(e)[1]

StepAfter(e, step) ==
    IF Len(Steps(e)) = 2 /\ Steps(e)[1] = step THEN Steps(e)[2] ELSE "yield"

KeyOf(e, step) ==
    IF step = "voice" THEN e.voice_key
    ELSE IF step = "image" THEN e.image_key
    ELSE IF step = "audio" THEN e.audio_key
    ELSE e.background_key

\* _extract_url: the url held by a result; none for no result.
ExtractUrl(r) == IF r = "default" THEN "none" ELSE <<"url", r>>

\* The event after tracker.get / resolve_url gave r for a step.
Fill(e, step, r) ==
    IF step = "voice"
      THEN (IF r = "default" THEN e
            ELSE [e EXCEPT !.voice_url = ExtractUrl(r),
                           !.voice_duration = <<"duration", r>>])
    ELSE IF step = "image"
      THEN (IF r = "default" THEN e
            ELSE [e EXCEPT !.image_url = ExtractUrl(r), !.image_result = r])
    ELSE IF step = "audio"
      THEN [e EXCEPT !.audio_url = ExtractUrl(r)]
    ELSE [e EXCEPT !.background_url = ExtractUrl(r)]

\* resolve_url keeps the url it extracted, if any, in _resolved.
Cache(step, k, r) ==
    IF step \in {"audio", "background"} /\ ExtractUrl(r) # "none"
      THEN [resolved EXCEPT ![k] = ExtractUrl(r)]
      ELSE resolved

\* stream loop: `event = await queue.get()`; None ends the stream, an
\* exception is raised, and `finally` cancels a producer that is not done.
IsExceptionNever(item) == FALSE
IsException(item) == item = ErrMark

stream_get ==
    /\ cpc = "get"
    /\ Len(chan) > 0
    /\ chan' = Tail(chan)
    /\ IF Head(chan) = EndMark
         THEN cpc' = "done" /\ cur' = cur /\ ppc' = "done"
       ELSE IF IsException(Head(chan))
         THEN cpc' = "raised" /\ cur' = cur /\ ppc' = "done"
       ELSE cpc' = FirstStep(Head(chan)) /\ cur' = Head(chan) /\ ppc' = ppc
    /\ UNCHANGED <<emitted, pev, cfid, resolved, yielded,
                   resources, fut, nfut, trkrest>>

Resolving == cpc \in {"voice", "image", "audio", "background"}

\* stream loop: resolve_url finds the key in _resolved.
stream_cached ==
    /\ Resolving /\ cfid = 0
    /\ cpc \in {"audio", "background"}
    /\ resolved[KeyOf(cur, cpc)] # "none"
    /\ cur' = IF cpc = "audio"
                THEN [cur EXCEPT !.audio_url = resolved[KeyOf(cur, cpc)]]
                ELSE [cur EXCEPT !.background_url = resolved[KeyOf(cur, cpc)]]
    /\ cpc' = StepAfter(cur, cpc)
    /\ UNCHANGED <<emitted, chan, ppc, pev, cfid, resolved, yielded,
                   resources, fut, nfut, trkrest>>

\* stream loop: tracker.get(key, timeout) is called: the key is registered
\* if needed; a done future gives its outcome at once, a pending one is
\* awaited.
stream_tracker_get ==
    /\ Resolving /\ cfid = 0
    /\ cpc \in {"audio", "background"} => resolved[KeyOf(cur, cpc)] = "none"
    /\ IF resources[KeyOf(cur, cpc)] = Untracked
         THEN /\ nfut < NumFuts
              /\ nfut' = nfut + 1
              /\ resources' = [resources EXCEPT ![KeyOf(cur, cpc)] =
                                   Tracked(nfut + 1, NoTask)]
              /\ cfid' = nfut + 1
              /\ UNCHANGED <<cur, cpc, resolved>>
         ELSE /\ UNCHANGED <<nfut, resources>>
              /\ IF IsDone(resources[KeyOf(cur, cpc)].fid)
                   THEN /\ cur' = Fill(cur, cpc,
                                    GetResult(resources[KeyOf(cur, cpc)].fid))
                        /\ resolved' = Cache(cpc, KeyOf(cur, cpc),
                                    GetResult(resources[KeyOf(cur, cpc)].fid))
                        /\ cpc' = StepAfter(cur, cpc)
                        /\ cfid' = 0
                   ELSE /\ cfid' = resources[KeyOf(cur, cpc)].fid
                        /\ UNCHANGED <<cur, cpc, resolved>>
    /\ UNCHANGED <<emitted, chan, ppc, pev, yielded, fut, trkrest>>

\* stream loop: the awaited future is done, tracker.get returns.
stream_tracker_resume ==
    /\ Resolving /\ cfid # 0
    /\ IsDone(cfid)
    /\ cur' = Fill(cur, cpc, GetResult(cfid))
    /\ resolved' = Cache(cpc, KeyOf(cur, cpc), GetResult(cfid))
    /\ cpc' = StepAfter(cur, cpc)
    /\ cfid' = 0
    /\ UNCHANGED <<emitted, chan, ppc, pev, yielded,
                   resources, fut, nfut, trkrest>>

\* stream loop: resource_timeout runs out: wait_for cancels the future and
\* tracker.get returns the default.
stream_tracker_timeout ==
    /\ Resolving /\ cfid # 0
    /\ ~IsDone(cfid)
    /\ fut' = [fut EXCEPT ![cfid] = Done("cancelled", "none")]
    /\ cur' = Fill(cur, cpc, "default")
    /\ cpc' = StepAfter(cur, cpc)
    /\ cfid' = 0
    /\ UNCHANGED <<emitted, chan, ppc, pev, resolved, yielded,
                   resources, nfut, trkrest>>

\* stream loop: `yield event`.
stream_yield ==
    /\ cpc = "yield"
    /\ yielded' = Append(yielded, cur)
    /\ cur' = NoEvent
    /\ cpc' = "get"
    /\ UNCHANGED <<emitted, chan, ppc, pev, cfid, resolved,
                   resources, fut, nfut, trkrest>>

\* One stream over a tracker whose keys are settled, or not, by the
\* producer's side (set_result, set_exception) at any time.
NextConsumer ==
    \/ stream_start
    \/ \E e \in EventsAt(Len(emitted) + 1) : producer_run(e)
    \/ producer_put
    \/ \E mark \in {EndMark, ErrMark} : producer_end(mark)
    \/ producer_put_end
    \/ stream_get
    \/ stream_cached
    \/ stream_tracker_get
    \/ stream_tracker_resume
    \/ stream_tracker_timeout
    \/ stream_yield
    \/ \E k \in Keys : set_result(k)
    \/ \E k \in Keys : set_exception(k)

SpecConsumer == InitTracker /\ [][NextConsumer]_vars

\* =========================================================================
\* StoryEngine.run behind the stream, no worker running (engine/producer.py)
\* =========================================================================
\* What the engine's steps leave alone.
engrest == <<result, dialogue, dpc, dlvars, scvars, unknown, vcvars, stvars, cpc, cur, cfid,
             resolved, yielded, chan, persisted, poll, hist, tmvars>>

\* The coroutine slot of calls that the engine's tracker.submit runs in.
EngineCall == 1

\* The events _process_scene and run yield (no AudioEvent among them).
EngineEvents(n) == {e \in EventsAt(n) : e.event_type # "audio"}

\* The keys _process_scene submits before it yields the event, in order.
SubmitKeys(e) ==
    SelectSeq(IF e.event_type = "scene_start"
                THEN <<e.music_key, e.ambient_key>>
              ELSE IF e.event_type \in {"dialogue", "narration"}
                THEN <<e.voice_key>>
              ELSE IF e.event_type = "sound" THEN <<e.sound_key>>
              ELSE <<>>,
              LAMBDA k : k # 0)

\* The ids of this model suffice for the event: a task and a future for each
\* of its submits, beside a future for every key that is not tracked yet.
IdsSuffice(e) ==
    /\ Cardinality({t \in Tasks : subpc[t] = "none"}) >= Len(SubmitKeys(e))
    /\ nfut + Cardinality({k \in Keys : resources[k] = Untracked})
            + Len(SubmitKeys(e)) <= NumFuts

\* The step of the engine after the submits of the event in hand.
AfterSubmit(keys) == IF keys = <<>> THEN "yield" ELSE "submit"

\* run: _infer_story plans the story; _generate_character_portrait settles
\* the voice-description key (set_result) after dify.character_details. With
\* a cached script this is skipped and the key stays untracked.
engine_infer_story ==
    /\ ppc = "run"
    /\ emitted = <<>>
    /\ voice_desc = "untracked"
    /\ voice_desc' = "result"
    /\ UNCHANGED <<ppc, pev, pkeys, emitted, calls, resources, fut, nfut,
                   engrest>>

\* run / _process_scene: the next element of the script is taken up.
engine_next(e) ==
    /\ ppc = "run"
    /\ Len(emitted) < NumEvents
    /\ e \in EngineEvents(Len(emitted) + 1)
    /\ IdsSuffice(e)
    /\ pev' = e
    /\ pkeys' = SubmitKeys(e)
    /\ ppc' = IF e.event_type = "dialogue" THEN "voice_id"
              ELSE AfterSubmit(SubmitKeys(e))
    /\ UNCHANGED <<voice_desc, emitted, calls, resources, fut, nfut, engrest>>

\* _get_voice_id: tracker.get(voice_key, timeout=600, default): a done future
\* gives its outcome (or the default) at once; else the key is registered if
\* needed and the future is awaited.
engine_get_voice_id ==
    /\ ppc = "voice_id"
    /\ IF voice_desc \in {"result", "cancelled"}
         THEN ppc' = AfterSubmit(pkeys) /\ voice_desc' = voice_desc
       ELSE ppc' = "voice_wait" /\ voice_desc' = "pending"
    /\ UNCHANGED <<pev, pkeys, emitted, calls, resources, fut, nfut, engrest>>

\* _get_voice_id: the 600 s run out: wait_for cancels the future and get
\* returns the default voice.
engine_voice_timeout ==
    /\ ppc = "voice_wait"
    /\ voice_desc' = "cancelled"
    /\ ppc' = AfterSubmit(pkeys)
    /\ UNCHANGED <<pev, pkeys, emitted, calls, resources, fut, nfut, engrest>>

\* tracker.submit(key, ...): the existing future is returned for a tracked,
\* pending key; else submit_task is awaited.
engine_submit_call ==
    /\ ppc = "submit"
    /\ IF AlreadyTracked(Head(pkeys))
         THEN /\ pkeys' = Tail(pkeys)
              /\ ppc' = AfterSubmit(Tail(pkeys))
              /\ calls' = calls
         ELSE /\ pkeys' = pkeys
              /\ ppc' = "submitting"
              /\ calls' = [calls EXCEPT ![EngineCall] =
                     [NoCall EXCEPT !.op = "submit", !.pc = "setex",
                                    !.key = Head(pkeys),
                                    !.fid = resources[Head(pkeys)].fid]]
    /\ UNCHANGED <<pev, voice_desc, emitted, resources, fut, nfut, engrest>>

\* tracker.submit has returned the new future; the engine does not await it.
engine_submit_return_awaited ==
    /\ ppc = "submitting"
    /\ calls[EngineCall] = NoCall
    /\ IsDone(resources[Head(pkeys)].fid)
    /\ pkeys' = Tail(pkeys)
    /\ ppc' = AfterSubmit(Tail(pkeys))
    /\ UNCHANGED <<pev, voice_desc, emitted, calls, resources, fut, nfut,
                   engrest>>
engine_submit_return ==
    /\ ppc = "submitting"
    /\ calls[EngineCall] = NoCall
    /\ pkeys' = Tail(pkeys)
    /\ ppc' = AfterSubmit(Tail(pkeys))
    /\ UNCHANGED <<pev, voice_desc, emitted, calls, resources, fut, nfut,
                   engrest>>

\* _process_scene / run: `yield event`; _producer receives it.
engine_yield ==
    /\ ppc = "yield"
    /\ emitted' = Append(emitted, pev)
    /\ ppc' = "put"
    /\ UNCHANGED <<pev, pkeys, voice_desc, calls, resources, fut, nfut,
                   engrest>>

\* The steps of the producer task.
ProducerSteps ==
    \/ engine_infer_story
    \/ \E e \in EngineEvents(Len(emitted) + 1) : engine_next(e)
    \/ engine_get_voice_id
    \/ engine_voice_timeout
    \/ engine_submit_call
    \/ \E t \in Tasks : submit_setex(EngineCall, t)
    \/ submit_lpush(EngineCall)
    \/ submit_hset(EngineCall)
    \/ engine_submit_return
    \/ engine_yield
    \/ producer_put
    \/ producer_end(EndMark)
    \/ producer_put_end

\* The steps of the stream loop that drains the queue; no future is ever
\* settled but by a timeout of the loop itself, so a future the loop awaits
\* is never done by another hand and no url is cached.
ConsumerSteps ==
    \/ stream_start
    \/ stream_get
    \/ stream_tracker_get
    \/ stream_tracker_timeout
    \/ stream_yield

NextProducer == ProducerSteps \/ ConsumerSteps

\* No start_workers: submitted tasks stay pending for ever.
SpecProducer == InitTracker /\ [][NextProducer]_vars

\* The event loop runs a coroutine that can run, and timeouts elapse.
FairProducer ==
    SpecProducer /\ WF_vars(ProducerSteps) /\ WF_vars(ConsumerSteps)

\* =========================================================================
\* Portrait selection (tasks/models.py, consumer._extract_url)
\* =========================================================================
\* ResourceResult.primary_url
primary_url(m) == IF HasKey(m, "default") THEN AtKey(m, "default")
                  ELSE FirstUrl(m)

\* ResourceResult.get_url(key, fallback)
get_url_first(m, key, fallback) ==
    IF Len(m) = 1 THEN FirstUrl(m)
    ELSE IF HasKey(m, key) THEN AtKey(m, key)
    ELSE IF ~fallback THEN "none"
    ELSE FirstUrl(m)
get_url(m, key, fallback) ==
    IF Len(m) = 1 THEN FirstUrl(m)
    ELSE IF HasKey(m, key) THEN AtKey(m, key)
    ELSE IF ~fallback THEN "none"
    ELSE IF HasKey(m, "default") THEN AtKey(m, "default")
    ELSE FirstUrl(m)

\* PortraitResourceResult.get_emotion_url(emotion, fallback)
get_emotion_url(m, emotion, fallback) == get_url(m, emotion, fallback)

\* _extract_url: a JSON string is rebuilt into the class its resource_type
\* names.
ParseJson(r) ==
    IF r.type # "json" THEN r
    ELSE [r EXCEPT !.type = IF r.resource_type = "portrait"
                              THEN "PortraitResourceResult"
                              ELSE "ResourceResult"]

\* _extract_url(result, emotion)
extract_url(r, emotion) ==
    LET p == ParseJson(r) IN
    IF p.type = "None" THEN "none"
    ELSE IF p.type = "PortraitResourceResult"
      THEN IF emotion # "" THEN get_emotion_url(p.url_map, emotion, TRUE)
           ELSE primary_url(p.url_map)
    ELSE IF p.type = "ResourceResult" THEN primary_url(p.url_map)
    ELSE IF p.type = "dict"
      THEN IF p.url_map = <<>> THEN "none"
           ELSE IF emotion # "" /\ HasKey(p.url_map, emotion)
             THEN AtKey(p.url_map, emotion)
           ELSE IF HasKey(p.url_map, "default")
             THEN AtKey(p.url_map, "default")
           ELSE FirstUrl(p.url_map)
    ELSE p.url

\* A Dialogue event whose image_key the stream has just awaited.
InitPortrait ==
    /\ TMInitFresh
    /\ TrackerInit /\ VoicesIdle
    /\ ConsumerInit
    /\ result \in Results
    /\ dialogue \in {Dialogue(e, "none") : e \in Emotions}
    /\ dpc = "image"
    /\ opc = "off"
    /\ DownloadsIdle
    /\ spc = "off"
    /\ ScriptEmpty
    /\ AllResolve

\* stream: `if result: event.image_url = self._extract_url(result,
\* emotion=event.emotion)`, else the url is left unset.
stream_fill_image ==
    /\ dpc = "image"
    /\ dpc' = "yield"
    /\ dialogue' = IF result # NoResult
                     THEN [dialogue EXCEPT
                             !.image_url = extract_url(result, dialogue.emotion)]
                   ELSE dialogue
    /\ UNCHANGED <<result, emitted, chan, ppc, pev, cpc, cur, cfid, resolved,
                   yielded, resources, fut, nfut, persisted, calls, poll, hist,
                   tmvars, dlvars, scvars, unknown, vcvars, stvars, pkeys,
                   voice_desc>>

NextPortrait == stream_fill_image

SpecPortrait == InitPortrait /\ [][NextPortrait]_vars

\* =========================================================================
\* OfflineConsumer: on-demand portrait download (engine/consumer.py)
\* =========================================================================
\* What the download steps leave alone.
dlrest == <<result, dialogue, dpc, emitted, chan, ppc, pev, cpc, cur, cfid,
            resolved, yielded, resources, fut, nfut, persisted, calls, poll,
            hist, tmvars, scvars, unknown, vcvars, stvars, pkeys, voice_desc>>

\* The emotions a Dialogue event carries: normalize_emotion returns a tag.
DialogueEmotions == Emotions \ {""}

\* _extract_urls, for the results that carry a url_map: its values in order.
extract_urls(r) == r.url_map

\* _extract_emotion_from_url: the file name's prefix, which is the label the
\* task gave the url in url_map (_extract_label_from_filename).
extract_emotion_from_url(entry) == entry.key

Labels(m) == {m[i].key : i \in 1..Len(m)}

\* One portrait key whose task will return `result`; the stream is running.
InitOffline ==
    /\ TMInitFresh
    /\ TrackerInit /\ VoicesIdle
    /\ ConsumerInit
    /\ result \in {r \in Results : r.resource_type = "portrait"}
    /\ dialogue = NoDialogue
    /\ dpc = "off"
    /\ opc = "stream"
    /\ DownloadsIdle
    /\ spc = "off"
    /\ ScriptEmpty
    /\ AllResolve

\* The key's task completes: the future is settled with the result.
future_settle ==
    /\ ~avail
    /\ avail' = TRUE
    /\ ohist' = [ohist EXCEPT !.early = (ohist.seen = {})]
    /\ UNCHANGED <<opc, used_emotions, downloaded, written, downloads, dlrest>>

\* OfflineConsumer.stream yields a Dialogue of the key (the streaming loop got
\* the result, or None after its timeout): the emotion is recorded, and the
\* caller starts download_and_save with the emotion as attribute when the
\* event has an image_url.
offline_stream_yield(e) ==
    /\ opc = "stream"
    /\ ohist.n < MaxDialogues
    /\ LET d == ohist.n + 1
           url == IF avail THEN extract_url(result, e) ELSE "none"
       IN  /\ used_emotions' = used_emotions \cup {e}
           /\ ohist' = [ohist EXCEPT !.n = d, !.seen = @ \cup {e},
                                      !.timeouts = @ \/ ~avail]
           /\ downloads' = IF url # "none"
                             THEN [downloads EXCEPT
                                     ![d] = Dl("start", e, FALSE, {}, 0, FALSE)]
                           ELSE downloads
    /\ UNCHANGED <<avail, opc, downloaded, written, dlrest>>

\* The stream ends.
offline_stream_end ==
    /\ opc = "stream"
    /\ opc' = "ended"
    /\ UNCHANGED <<avail, used_emotions, downloaded, written, downloads,
                   ohist, dlrest>>

\* schedule_download(key): nothing if the key is downloaded or a task of that
\* name is running; else the background task is created.
schedule_download ==
    /\ opc = "stream"
    /\ downloaded = "absent"
    /\ downloads[0].pc \in {"free", "done"}
    /\ downloads' = [downloads EXCEPT
                       ![0] = Dl("start", "", FALSE, {}, 0, FALSE)]
    /\ UNCHANGED <<avail, opc, used_emotions, downloaded, written, ohist,
                   dlrest>>

\* _background_download: the second check of the cache, then tracker.get.
background_download_start ==
    /\ downloads[0].pc = "start"
    /\ downloads' = [downloads EXCEPT
                       ![0].pc = IF downloaded # "absent" THEN "done"
                                 ELSE "get"]
    /\ UNCHANGED <<avail, opc, used_emotions, downloaded, written, ohist,
                   dlrest>>

\* _background_download: tracker.get returned None (timeout).
background_download_timeout ==
    /\ downloads[0].pc = "get"
    /\ ~avail
    /\ downloads' = [downloads EXCEPT ![0].pc = "done"]
    /\ UNCHANGED <<avail, opc, used_emotions, downloaded, written, ohist,
                   dlrest>>

\* _background_download: tracker.get returned the result; with urls,
\* _do_download_urls starts on the recorded emotions (the live set), or on
\* all emotions of the urls when none is recorded.
background_download_get ==
    /\ downloads[0].pc = "get"
    /\ avail
    /\ downloads' =
         [downloads EXCEPT
            ![0] = IF extract_urls(result) = <<>>
                     THEN [@ EXCEPT !.pc = "done"]
                   ELSE IF used_emotions # {}
                     THEN Dl("loop", "", TRUE, {}, 1, FALSE)
                   ELSE Dl("loop", "", FALSE,
                           {extract_emotion_from_url(extract_urls(result)[i]) :
                              i \in 1..Len(extract_urls(result))}, 1, FALSE)]
    /\ UNCHANGED <<avail, opc, used_emotions, downloaded, written, ohist,
                   dlrest>>

\* download_and_save(result, attribute=emotion, key): nothing if the key is
\* downloaded; else only the attribute's emotion is wanted.
download_and_save_start(d) ==
    /\ d # 0
    /\ downloads[d].pc = "start"
    /\ downloads' =
         [downloads EXCEPT
            ![d] = IF downloaded # "absent" \/ extract_urls(result) = <<>>
                     THEN [@ EXCEPT !.pc = "done"]
                   ELSE Dl("loop", @.attribute, FALSE, {@.attribute}, 1, FALSE)]
    /\ UNCHANGED <<avail, opc, used_emotions, downloaded, written, ohist,
                   dlrest>>

\* The emotions a download coroutine keeps.
Used(d) == IF downloads[d].live THEN used_emotions ELSE downloads[d].used

\* One turn of `for url in urls`: the url is downloaded when its emotion is
\* wanted (_do_download writes the file unless it exists).
download_url(d) ==
    /\ downloads[d].pc = "loop"
    /\ downloads[d].i <= Len(extract_urls(result))
    /\ LET emotion ==
             extract_emotion_from_url(extract_urls(result)[downloads[d].i])
       IN  IF emotion \in Used(d)
             THEN /\ written' = written \cup {emotion}
                  /\ downloads' = [downloads EXCEPT ![d].i = @ + 1,
                                                    ![d].first = TRUE]
           ELSE /\ written' = written
                /\ downloads' = [downloads EXCEPT ![d].i = @ + 1]
    /\ UNCHANGED <<avail, opc, used_emotions, downloaded, ohist, dlrest>>

\* After the loop: _do_download_urls stores first_path (None included),
\* download_and_save stores it only when it is set.
download_done(d) ==
    /\ downloads[d].pc = "loop"
    /\ downloads[d].i > Len(extract_urls(result))
    /\ downloaded' = IF downloads[d].first THEN "path"
                     ELSE IF d = 0 THEN "None"
                     ELSE downloaded
    /\ downloads' = [downloads EXCEPT ![d].pc = "done"]
    /\ UNCHANGED <<avail, opc, used_emotions, written, ohist, dlrest>>

NextOffline ==
    \/ future_settle
    \/ \E e \in DialogueEmotions : offline_stream_yield(e)
    \/ offline_stream_end
    \/ schedule_download
    \/ background_download_start
    \/ background_download_timeout
    \/ background_download_get
    \/ \E d \in DlIds : download_and_save_start(d)
    \/ \E d \in DlIds : download_url(d)
    \/ \E d \in DlIds : download_done(d)

SpecOffline == InitOffline /\ [][NextOffline]_vars

\* =========================================================================
\* RenpyConsumer: the script writer (engine/consumer.py)
\* =========================================================================
screst == <<result, dialogue, dpc, dlvars, emitted, chan, ppc, pev, cpc, cur,
            cfid, resolved, yielded, resources, fut, nfut, persisted, calls,
            poll, hist, tmvars, unknown, vcvars, stvars, pkeys, voice_desc>>

\* A script line: what it is, the item (event) it was written for, and for a
\* line with a {VOICE:key} / {AUDIO:key} placeholder the key; `file` is
\* "placeholder" until generate_script puts the file name or MISSING_<key>.
Line(kind, item, key, file) ==
    [kind |-> kind, item |-> item, key |-> key, file |-> file]

\* The item the next add_* call writes.
NextItem == IF script_lines = <<>> THEN 1
            ELSE script_lines[Len(script_lines)].item + 1

InitScript ==
    /\ TMInitFresh
    /\ TrackerInit /\ VoicesIdle
    /\ ConsumerInit
    /\ result = NoResult
    /\ dialogue = NoDialogue
    /\ dpc = "off"
    /\ opc = "off"
    /\ DownloadsIdle
    /\ spc = "write"
    /\ ScriptEmpty
    /\ AllResolve

\* add_scene(index, bg_id), outside a chapter start.
add_scene ==
    /\ spc = "write"
    /\ NextItem \in Items
    /\ script_lines' = script_lines \o
         << Line("label", NextItem, 0, "none"),
            Line("scene bg", NextItem, 0, "none"),
            Line("stop music", NextItem, 0, "none"),
            Line("stop ambient", NextItem, 0, "none") >>
    /\ UNCHANGED <<audio_files, script, spc, screst>>

\* add_dialogue(character, character_tag, text, emotion, voice_key)
add_dialogue(voice_key) ==
    /\ spc = "write"
    /\ NextItem \in Items
    /\ voice_key \in {0, NextItem}
    /\ script_lines' = script_lines \o
         (IF voice_key # 0
            THEN << Line("voice", NextItem, voice_key, "placeholder") >>
          ELSE << >>) \o
         << Line("show", NextItem, 0, "none"),
            Line("say", NextItem, 0, "none"),
            Line("hide", NextItem, 0, "none") >>
    /\ UNCHANGED <<audio_files, script, spc, screst>>

\* add_narration(text, voice_key)
add_narration(voice_key) ==
    /\ spc = "write"
    /\ NextItem \in Items
    /\ voice_key \in {0, NextItem}
    /\ script_lines' = script_lines \o
         (IF voice_key # 0
            THEN << Line("voice", NextItem, voice_key, "placeholder") >>
          ELSE << >>) \o
         << Line("text", NextItem, 0, "none") >>
    /\ UNCHANGED <<audio_files, script, spc, screst>>

\* The last line that is `stop ambient`, 0 if there is none.
LastStopAmbient ==
    IF \E i \in 1..Len(script_lines) : script_lines[i].kind = "stop ambient"
      THEN CHOOSE i \in 1..Len(script_lines) :
             /\ script_lines[i].kind = "stop ambient"
             /\ \A j \in (i + 1)..Len(script_lines) :
                   script_lines[j].kind # "stop ambient"
    ELSE 0

\* add_audio(channel, audio_key): music and sound append a line, ambient
\* replaces the last `stop ambient`.
add_audio(channel, audio_key) ==
    /\ spc = "write"
    /\ channel \in {"music", "ambient", "sound"}
    /\ audio_key = IF channel = "ambient" /\ LastStopAmbient # 0
                     THEN script_lines[LastStopAmbient].item
                   ELSE NextItem
    /\ channel = "ambient" => LastStopAmbient # 0
    /\ script_lines' =
         IF channel = "music"
           THEN Append(script_lines,
                       Line("play music", NextItem, audio_key, "placeholder"))
         ELSE IF channel = "sound"
           THEN Append(script_lines,
                       Line("play audio", NextItem, audio_key, "placeholder"))
         ELSE [script_lines EXCEPT
                 ![LastStopAmbient] =
                     Line("play ambient", @.item, audio_key, "placeholder")]
    /\ UNCHANGED <<audio_files, script, spc, screst>>

\* A download of an audio key that the script refers to has finished:
\* _downloaded[key] = local_path, the file is in the audio directory.
audio_downloaded(k) ==
    /\ spc = "write"
    /\ audio_files[k] = "absent"
    /\ \E i \in 1..Len(script_lines) : script_lines[i].key = k
    /\ audio_files' = [audio_files EXCEPT ![k] = "path"]
    /\ UNCHANGED <<script_lines, script, spc, screst>>

\* generate_script: re.sub of the placeholder by key_to_filename.get(key,
\* "MISSING_<key>").
replace_placeholder(l) ==
    IF l.file # "placeholder" THEN l
    ELSE [l EXCEPT !.file = IF audio_files[l.key] = "path" THEN "file"
                            ELSE "MISSING"]

\* The tag is MISSING_<key> or no file of that name is in the audio
\* directory (the directory holds exactly the downloaded files).
MissingFile(l) == l.file = "MISSING"

\* generate_script: the loop over script_lines.
RECURSIVE validated_lines(_)
validated_lines(lines) ==
    IF lines = <<>> THEN <<>>
    ELSE LET l == replace_placeholder(Head(lines))
             rest == validated_lines(Tail(lines))
         IN  IF l.kind \in {"voice", "play audio"} /\ MissingFile(l)
               THEN rest
             ELSE IF l.kind = "play music" /\ MissingFile(l)
               THEN <<[l EXCEPT !.kind = "stop music"]>> \o rest
             ELSE IF l.kind = "play ambient" /\ MissingFile(l)
               THEN <<[l EXCEPT !.kind = "stop ambient"]>> \o rest
             ELSE <<l>> \o rest

generate_script ==
    /\ spc = "write"
    /\ script' = validated_lines(script_lines)
    /\ spc' = "done"
    /\ UNCHANGED <<script_lines, audio_files, screst>>

NextScript ==
    \/ add_scene
    \/ \E vk \in {0} \cup Items : add_dialogue(vk)
    \/ \E vk \in {0} \cup Items : add_narration(vk)
    \/ \E ch \in {"music", "ambient", "sound"} :
          \E k \in Items : add_audio(ch, k)
    \/ \E k \in Items : audio_downloaded(k)
    \/ generate_script

SpecScript == InitScript /\ [][NextScript]_vars

\* =========================================================================
\* StoryEngine.run over the storylets queue (engine/producer.py)
\* =========================================================================
\* What the story steps leave alone.
strest == <<result, dialogue, dpc, dlvars, scvars, unknown, vcvars, pkeys, voice_desc,
            emitted, chan, ppc, pev, cpc, cur, cfid, resolved, yielded,
            resources, fut, nfut, persisted, calls, poll, hist, tmvars,
            shape, planned, cache0>>

\* f"{n}": the decimal digits of an index, most significant first.
RECURSIVE Digits(_)
Digits(n) == IF n < 10 THEN <<n>> ELSE Digits(n \div 10) \o <<n % 10>>

\* SceneInfo.index = f"{seq_idx}{scene_idx}"
SceneIndex(seq_idx, scene_idx) == Digits(seq_idx) \o Digits(scene_idx)

\* event_index = f"{scene_info.index}{event_idx}"
EventIndex(index, event_idx) == index \o Digits(event_idx)

\* A work item of storylets: StoryInfo, ChapterInfo or SceneInfo .to_dict().
Item(tag, idx, index) == [tag |-> tag, idx |-> idx, index |-> index]

\* _enqueue_scenes: the pushes for chapter seq_idx and the ones after it.
RECURSIVE ChapterItems(_, _)
ChapterItems(o, seq_idx) ==
    IF seq_idx > Len(o) THEN <<>>
    ELSE <<Item("sequence", seq_idx, <<>>)>>
         \o [scene_idx \in 1..o[seq_idx] |->
                Item("scene", seq_idx, SceneIndex(seq_idx, scene_idx))]
         \o ChapterItems(o, seq_idx + 1)

\* _enqueue_scenes: everything pushed for the outline o.
EnqueueItems(o) == <<Item("story", 0, <<>>)>> \o ChapterItems(o, 1)

\* Outlines: the number of scenes of each chapter.
Outlines ==
    UNION {[1..c -> 1..MaxScenes] : c \in 1..MaxChapters}
LongOutlines == {<<n>> : n \in 1..ManyScenes}

\* What the script generator streams for a scene: a <scene> root or none,
\* `lines` elements of one tag, the root's music attribute, and whether the
\* engine was given a narration voice.
Shape(root, lines, tag, music, nv) ==
    [root |-> root, lines |-> lines, tag |-> tag, music |-> music,
     narration_voice |-> nv]
LineTags == {"dialogue", "sound", "narration"}
Shapes(maxlines) ==
    {Shape(TRUE, n, tag, music, nv) :
        n \in 0..maxlines, tag \in LineTags, music \in BOOLEAN,
        nv \in BOOLEAN}
    \cup {Shape(FALSE, 1, tag, FALSE, nv) : tag \in LineTags, nv \in BOOLEAN}

\* XMLPullParser(events=('start', 'end')): the events read for a shape.
Xml(event, tag) == [event |-> event, tag |-> tag]
XmlLines(sh) ==
    [i \in 1..(2 * sh.lines) |->
        Xml(IF i % 2 = 1 THEN "start" ELSE "end", sh.tag)]
XmlStream(sh) ==
    IF sh.root
      THEN <<Xml("start", "scene")>> \o XmlLines(sh) \o <<Xml("end", "scene")>>
      ELSE XmlLines(sh)

\* A narrative event: its id and the resource keys it carries, each a prefix
\* with what follows the underscore (<<>>: None).
Narrative(type, id, voice_key, image_key, sound_key, background_key, music_key, ambient_key) ==
    [event_type |-> type, event_id |-> id, voice_key |-> voice_key,
     image_key |-> image_key, sound_key |-> sound_key,
     background_key |-> background_key, music_key |-> music_key,
     ambient_key |-> ambient_key]
StoryStartEvent ==
    Narrative("story_start", <<"story_start">>, <<>>, <<>>, <<>>, <<>>, <<>>,
              <<>>)
StoryEndEvent ==
    Narrative("story_end", <<"story_end">>, <<>>, <<>>, <<>>, <<>>, <<>>, <<>>)
ChapterStartEvent(idx) ==
    Narrative("chapter_start", <<"chapter", Digits(idx)>>, <<>>, <<>>, <<>>,
              <<>>, <<>>, <<>>)

\* _process_scene: what one xml event makes the engine yield (<<>>: nothing).
SceneEvents(x, index, event_idx, sh) ==
    IF x.event = "start" /\ x.tag = "scene" THEN
        <<Narrative("scene_start", <<"scene", index>>, <<>>, <<>>, <<>>,
                    <<"bg", "bg_id">>,
                    IF sh.music THEN <<"music", index>> ELSE <<>>,
                    IF sh.music THEN <<"ambient", index>> ELSE <<>>)>>
    ELSE IF x.event = "end" /\ x.tag = "dialogue" THEN
        <<Narrative("dialogue", <<"dialogue", EventIndex(index, event_idx)>>,
                    <<"voice", EventIndex(index, event_idx)>>,
                    <<"portrait", "tag">>, <<>>, <<>>, <<>>, <<>>)>>
    ELSE IF x.event = "end" /\ x.tag = "sound" THEN
        <<Narrative("sound", <<"sound", EventIndex(index, event_idx)>>,
                    <<>>, <<>>, <<"sound", EventIndex(index, event_idx)>>,
                    <<>>, <<>>, <<>>)>>
    ELSE IF x.event = "end" /\ x.tag = "narration" THEN
        <<Narrative("narration",
                    <<"narration", EventIndex(index, event_idx)>>,
                    IF sh.narration_voice
                      THEN <<"narration", EventIndex(index, event_idx)>>
                      ELSE <<>>,
                    <<>>, <<>>, <<>>, <<>>, <<>>)>>
    ELSE <<>>

\* The cache as the engine's constructor finds it.
Found(t, sc, q) == [think |-> t, script |-> sc, storylets |-> q]

\* Suffixes of a list: what is left of storylets after some pops.
Suffixes(q) == {SubSeq(q, i, Len(q)) : i \in 1..(Len(q) + 1)}

\* A StoryEngine is constructed for a request id: think and script are loaded
\* from the cache if there (each key has its own TTL), storylets is what an
\* earlier run of the request left.
InitStory ==
    /\ TMInitFresh
    /\ TrackerInit /\ VoicesIdle
    /\ StreamIdle
    /\ PortraitIdle
    /\ AllResolve
    /\ shape \in Shapes(MaxLines)
    /\ planned \in Outlines
    /\ think \in BOOLEAN
    /\ story_script \in {<<>>} \cup Outlines
    /\ \E o \in Outlines :
          /\ story_script \in {<<>>, o}
          /\ storylets \in Suffixes(EnqueueItems(o))
    /\ rpc = "infer"
    /\ scene = NoScene
    /\ parser = "clean"
    /\ out = <<>>
    /\ plans = 0
    /\ popped = <<>>
    /\ cache0 = Found(think, story_script, storylets)

\* A new request whose outline is one long chapter.
InitSeqIds ==
    /\ TMInitFresh
    /\ TrackerInit /\ VoicesIdle
    /\ StreamIdle
    /\ PortraitIdle
    /\ AllResolve
    /\ shape \in {sh \in Shapes(ManyLines) : sh.root}
    /\ planned \in LongOutlines
    /\ think = FALSE
    /\ story_script = <<>>
    /\ storylets = <<>>
    /\ rpc = "infer"
    /\ scene = NoScene
    /\ parser = "clean"
    /\ out = <<>>
    /\ plans = 0
    /\ popped = <<>>
    /\ cache0 = Found(FALSE, <<>>, <<>>)

\* _infer_story: `if self.think and self.script: return`.
StoryCached == think /\ story_script # <<>>

infer_story_cached ==
    /\ rpc = "infer"
    /\ StoryCached
    /\ rpc' = "enqueue"
    /\ UNCHANGED <<think, story_script, storylets, scene, parser, out, plans,
                   popped, strest>>

\* _infer_story: dify.plan_story is asked; think and script are set and
\* cached from its chunks.
infer_story_plan ==
    /\ rpc = "infer"
    /\ ~StoryCached
    /\ plans' = plans + 1
    /\ think' = TRUE
    /\ story_script' = planned
    /\ rpc' = "enqueue"
    /\ UNCHANGED <<storylets, scene, parser, out, popped, strest>>

\* _enqueue_scenes: `if self.cache.queue_len(storylets) > 0: return`.
QueueHasDataNever(q) == FALSE
QueueHasData(q) == Len(q) > 0

enqueue_scenes_skip ==
    /\ rpc = "enqueue"
    /\ story_script = <<>> \/ QueueHasData(storylets)
    /\ rpc' = "start"
    /\ UNCHANGED <<think, story_script, storylets, scene, parser, out, plans,
                   popped, strest>>

\* _enqueue_scenes: cache.push (RPUSH) of the story, chapter and scene items.
enqueue_scenes ==
    /\ rpc = "enqueue"
    /\ story_script # <<>>
    /\ ~QueueHasData(storylets)
    /\ storylets' = storylets \o EnqueueItems(story_script)
    /\ rpc' = "start"
    /\ UNCHANGED <<think, story_script, scene, parser, out, plans, popped,
                   strest>>

\* run: yield StoryStartEvent.
run_story_start ==
    /\ rpc = "start"
    /\ out' = Append(out, StoryStartEvent)
    /\ rpc' = "loop"
    /\ UNCHANGED <<think, story_script, storylets, scene, parser, plans,
                   popped, strest>>

\* run: cache.pop (LPOP) gives the story item: `continue`.
run_pop_story ==
    /\ rpc = "loop"
    /\ storylets # <<>>
    /\ Head(storylets).tag = "story"
    /\ storylets' = Tail(storylets)
    /\ popped' = Append(popped, Head(storylets))
    /\ UNCHANGED <<think, story_script, rpc, scene, parser, out, plans,
                   strest>>

\* run: a chapter item: yield ChapterStartEvent.
run_pop_sequence ==
    /\ rpc = "loop"
    /\ storylets # <<>>
    /\ Head(storylets).tag = "sequence"
    /\ storylets' = Tail(storylets)
    /\ popped' = Append(popped, Head(storylets))
    /\ out' = Append(out, ChapterStartEvent(Head(storylets).idx))
    /\ UNCHANGED <<think, story_script, rpc, scene, parser, plans, strest>>

\* XMLParser.reset: a new XMLPullParser, whatever state the old one is in.
XMLParserKept(p) == p
XMLParserReset(p) == "clean"

\* run: a scene item; _process_scene resets the parser, event_idx = 0, and
\* asks the script generator.
run_pop_scene ==
    /\ rpc = "loop"
    /\ storylets # <<>>
    /\ Head(storylets).tag = "scene"
    /\ storylets' = Tail(storylets)
    /\ popped' = Append(popped, Head(storylets))
    /\ parser' = XMLParserReset(parser)
    /\ scene' = [index |-> Head(storylets).index, xml |-> XmlStream(shape),
                 event_idx |-> 0]
    /\ rpc' = "scene"
    /\ UNCHANGED <<think, story_script, out, plans, strest>>

\* _process_scene: the parser reads one more xml event; event_idx += 1 and
\* the branch of its tag yields, or none does.
process_scene_event ==
    /\ rpc = "scene"
    /\ parser # "broken"
    /\ scene.xml # <<>>
    /\ parser' = "fed"
    /\ scene' = [scene EXCEPT !.xml = Tail(@), !.event_idx = @ + 1]
    /\ out' = out \o SceneEvents(Head(scene.xml), scene.index,
                                 scene.event_idx + 1, shape)
    /\ UNCHANGED <<think, story_script, storylets, rpc, plans, popped,
                   strest>>

\* _process_scene: parser.feed raises etree.XMLSyntaxError on a malformed
\* chunk (or on any chunk once the parser is broken); the except clause logs
\* it and the generator ends.
process_scene_error ==
    /\ rpc = "scene"
    /\ parser' = "broken"
    /\ scene' = NoScene
    /\ rpc' = "loop"
    /\ UNCHANGED <<think, story_script, storylets, out, plans, popped,
                   strest>>

\* _process_scene: the script generator's stream is exhausted.
process_scene_end ==
    /\ rpc = "scene"
    /\ parser # "broken"
    /\ scene.xml = <<>>
    /\ scene' = NoScene
    /\ rpc' = "loop"
    /\ UNCHANGED <<think, story_script, storylets, parser, out, plans,
                   popped, strest>>

\* run: storylets is empty; yield StoryEndEvent.
run_story_end ==
    /\ rpc = "loop"
    /\ storylets = <<>>
    /\ out' = Append(out, StoryEndEvent)
    /\ rpc' = "done"
    /\ UNCHANGED <<think, story_script, storylets, scene, parser, plans,
                   popped, strest>>

NextStory ==
    \/ infer_story_cached
    \/ infer_story_plan
    \/ enqueue_scenes_skip
    \/ enqueue_scenes
    \/ run_story_start
    \/ run_pop_story
    \/ run_pop_sequence
    \/ run_pop_scene
    \/ process_scene_event
    \/ process_scene_error
    \/ process_scene_end
    \/ run_story_end

SpecStory == InitStory /\ [][NextStory]_vars

\* The runs of the request so far: each run yields StoryStartEvent once.
Runs == Cardinality({i \in 1..Len(out) : out[i].event_type = "story_start"})

\* The run stops while _process_scene expands a scene (the process is
\* killed, or the consumer abandons the generator), and a StoryEngine is
\* constructed again for the request id: think and script are loaded from
\* the cache, storylets is what the stopped run left, the parser is new.
\* `out` goes on across the runs; cache0 keeps what the first run found.
run_interrupted ==
    /\ rpc = "scene"
    /\ Runs <= MaxStops
    /\ rpc' = "infer"
    /\ scene' = NoScene
    /\ parser' = "clean"
    /\ UNCHANGED <<think, story_script, storylets, out, plans, popped,
                   strest>>

\* A new request with well-formed scene scripts, whose run may be stopped
\* and invoked again.
InitResume ==
    /\ TMInitFresh
    /\ TrackerInit /\ VoicesIdle
    /\ StreamIdle
    /\ PortraitIdle
    /\ AllResolve
    /\ shape \in Shapes(MaxLines)
    /\ planned \in Outlines
    /\ think = FALSE
    /\ story_script = <<>>
    /\ storylets = <<>>
    /\ rpc = "infer"
    /\ scene = NoScene
    /\ parser = "clean"
    /\ out = <<>>
    /\ plans = 0
    /\ popped = <<>>
    /\ cache0 = Found(FALSE, <<>>, <<>>)

NextResume ==
    \/ infer_story_cached
    \/ infer_story_plan
    \/ enqueue_scenes_skip
    \/ enqueue_scenes
    \/ run_story_start
    \/ run_pop_story
    \/ run_pop_sequence
    \/ run_pop_scene
    \/ process_scene_event
    \/ process_scene_end
    \/ run_story_end
    \/ run_interrupted

SpecResume == InitResume /\ [][NextResume]_vars

\* A new request, well-formed scene scripts.
NextSeqIds ==
    \/ infer_story_plan
    \/ enqueue_scenes
    \/ run_story_start
    \/ run_pop_story
    \/ run_pop_sequence
    \/ run_pop_scene
    \/ process_scene_event
    \/ process_scene_end
    \/ run_story_end

SpecSeqIds == InitSeqIds /\ [][NextSeqIds]_vars

\* =========================================================================
\* StoryEngine._get_voice_id (engine/producer.py)
\* =========================================================================
Chars == 1..NumChars
CacheKeys == 1..NumCacheKeys
VoiceIds == 1..NumVoices

\* mediahub.search_voice (after the retry without gender and age): a list of
\* voices, possibly empty.
SearchResults ==
    {r \in UNION {[1..n -> VoiceIds] : n \in 0..NumVoices} :
        \A i, j \in 1..Len(r) : r[i] = r[j] => i = j}

\* self.voices.values()
VoiceValues(vs) == {vs[k] : k \in CacheKeys} \ {0}

\* `for result in results: if voice_id not in self.voices.values()`: the
\* place of the first result that passes, 0 if none does.
FirstUnassignedAny(vs, results) == IF results = <<>> THEN 0 ELSE 1
FirstUnassigned(vs, results) ==
    IF \A i \in 1..Len(results) : results[i] \in VoiceValues(vs) THEN 0
    ELSE CHOOSE i \in 1..Len(results) :
           /\ results[i] \notin VoiceValues(vs)
           /\ \A j \in 1..(i - 1) : results[j] \in VoiceValues(vs)

\* What _get_voice_id returns (0: it raises) for a cache key and the search
\* results.
VoiceFor(vs, cache_key, results) ==
    IF vs[cache_key] # 0 THEN vs[cache_key]
    ELSE IF results = <<>> THEN 0
    ELSE IF FirstUnassigned(vs, results) # 0
           THEN results[FirstUnassigned(vs, results)]
    ELSE results[1]

\* _get_voice_id(name, age, gender): cache_key is made of the voice
\* description that tracker.get returned (or the default), gender and age.
\* A hit returns the cached id; a miss searches, caches the first id that no
\* cache key has and saves the map; if every id is taken the first result is
\* returned and nothing is cached. _process_scene awaits one call at a time.
get_voice_id(name, cache_key, results) ==
    /\ casting.n < MaxCastings
    /\ voices' = IF voices[cache_key] = 0 /\ results # <<>>
                    /\ FirstUnassigned(voices, results) # 0
                   THEN [voices EXCEPT ![cache_key] =
                            VoiceFor(voices, cache_key, results)]
                 ELSE voices
    /\ casting' = [n |-> casting.n + 1,
                   got |-> [casting.got EXCEPT ![name] =
                               VoiceFor(voices, cache_key, results)],
                   last |-> [name |-> name, cache_key |-> cache_key,
                             results |-> results,
                             voice_id |-> VoiceFor(voices, cache_key, results)]]
    /\ UNCHANGED <<tmvars, resources, fut, nfut, persisted, calls, poll, hist,
                   emitted, chan, ppc, pev, cpc, cur, cfid, resolved, yielded,
                   result, dialogue, dpc, dlvars, scvars, unknown, stvars,
                   pkeys, voice_desc, ptvars>>

\* The engine is constructed for a request: self.voices is what an earlier
\* run of the request cached.
InitVoices ==
    /\ TMInitFresh
    /\ TrackerInit
    /\ ConsumerInit
    /\ PortraitIdle
    /\ AllResolve
    /\ voices \in {vs \in [CacheKeys -> 0..NumVoices] :
                      \A a, b \in CacheKeys :
                          vs[a] # 0 /\ vs[a] = vs[b] => a = b}
    /\ casting = NoCasting
    /\ CastIdle

NextVoices ==
    \E name \in Chars, cache_key \in CacheKeys, results \in SearchResults :
        get_voice_id(name, cache_key, results)

SpecVoices == InitVoices /\ [][NextVoices]_vars

\* =========================================================================
\* StoryEngine: the portrait keys of the characters (engine/producer.py)
\* =========================================================================
\* What the steps on the portraits leave alone.
ptrest == <<tmvars, resources, fut, nfut, persisted, calls, poll, hist,
            emitted, chan, ppc, pev, cpc, cur, cfid, resolved, yielded,
            result, dialogue, dpc, dlvars, scvars, unknown, stvars,
            pkeys, voice_desc, voices, casting>>

\* The age attributes a script carries. The strings stand for the source's
\* Chinese ones: "qingnian", "chengnian" and "zhongnian"; pinyin.get maps
\* them to these distinct spellings.
Ages == {"qingnian", "chengnian", "zhongnian"}

\* default_age of the engine.
default_age == "qingnian"

\* _AGE_MAPPING on these ages.
AgeMapping ==
    [a \in Ages |-> IF a = "zhongnian" THEN "chengnian" ELSE a]

\* normalize_age: AgeTag.to_str; no age and an unmapped age give the youth.
normalize_age(age) ==
    IF age = "" THEN "qingnian"
    ELSE IF age \in DOMAIN AgeMapping THEN AgeMapping[age]
    ELSE "qingnian"

\* _character_tag(name, age): the normalised name and the pinyin of the age;
\* two tags are equal exactly when name and age are.
character_tag(name, age) == <<name, age>>

\* A <character name age> element.
CharacterInfo(name, age) == [name |-> name, age |-> age]

\* The engine's character state.
CastState(chs, ports) == [characters |-> chs, portraits |-> ports]

\* _generate_character_portrait(character_info): nothing when the details of
\* the (name, age) period exist; else the details are stored and the portrait
\* task of the tag is submitted.
generate_character_portrait(st, c) ==
    IF st.characters[c.name].known /\ c.age \in st.characters[c.name].periods
      THEN st
    ELSE CastState([st.characters EXCEPT ![c.name].known = TRUE,
                                    ![c.name].periods = @ \cup {c.age}],
              st.portraits \cup {character_tag(c.name, c.age)})

\* _infer_story at the end of <story>: each character of the script whose
\* name self.characters does not have is added with its age and gets its
\* portrait.
RECURSIVE NewCharacters(_, _)
NewCharacters(st, all_chars) ==
    IF all_chars = <<>> THEN st
    ELSE IF st.characters[Head(all_chars).name].known
      THEN NewCharacters(st, Tail(all_chars))
    ELSE NewCharacters(
           generate_character_portrait(
             CastState([st.characters EXCEPT ![Head(all_chars).name] =
                     [known |-> TRUE, age |-> Head(all_chars).age,
                      periods |-> {}]],
                  st.portraits),
             Head(all_chars)),
           Tail(all_chars))

\* The <character> elements of the whole script, in document order.
RECURSIVE AllChars(_)
AllChars(scenes) ==
    IF scenes = <<>> THEN <<>> ELSE Head(scenes) \o AllChars(Tail(scenes))

\* _process_scene: the age a Dialogue of char_name is given.
DialogueAge(chs, char_name) ==
    IF chs[char_name].known
      THEN normalize_age(IF chs[char_name].age = "" THEN default_age
                         ELSE chs[char_name].age)
    ELSE default_age

\* The scripts: each scene names at most one character.
SceneCasts ==
    {<<>>} \cup {<<CharacterInfo(n, a)>> : n \in Chars, a \in Ages}
Scripts == [1..MaxScenes -> SceneCasts]

\* The roles of the story input: the names that self.characters is loaded
\* with; a role gets its age from the scenes.
Roles == [Chars -> {NotKnown, [known |-> TRUE, age |-> "", periods |-> {}]}]

\* _infer_story, an `end character` event of scene ipc.i: the portrait of a
\* character that self.characters has.
RECURSIVE EndCharacters(_, _)
EndCharacters(st, chars) ==
    IF chars = <<>> THEN st
    ELSE EndCharacters(IF st.characters[Head(chars).name].known
                         THEN generate_character_portrait(st, Head(chars))
                       ELSE st,
                       Tail(chars))

infer_story_scene ==
    /\ ipc.pc = "infer"
    /\ ipc.i <= Len(scene_chars)
    /\ LET st == EndCharacters(CastState(characters, portraits),
                               scene_chars[ipc.i])
       IN  /\ characters' = st.characters
           /\ portraits' = st.portraits
    /\ ipc' = [ipc EXCEPT !.i = @ + 1]
    /\ UNCHANGED <<scene_chars, ptrest>>

\* _infer_story, the `end story` event; run goes on to the scenes.
infer_story_end ==
    /\ ipc.pc = "infer"
    /\ ipc.i > Len(scene_chars)
    /\ LET st == NewCharacters(CastState(characters, portraits),
                               AllChars(scene_chars))
       IN  /\ characters' = st.characters
           /\ portraits' = st.portraits
    /\ ipc' = [ipc EXCEPT !.pc = IF scene_chars = <<>> THEN "done"
                                 ELSE "scene", !.i = 1]
    /\ UNCHANGED <<scene_chars, ptrest>>

\* _process_scene begins: the ages of the scene's characters are recorded
\* for the names self.characters has.
RECURSIVE UpdateAges(_, _)
UpdateAges(chs, chars) ==
    IF chars = <<>> THEN chs
    ELSE UpdateAges(IF chs[Head(chars).name].known
                      THEN [chs EXCEPT ![Head(chars).name].age =
                                          Head(chars).age]
                    ELSE chs,
                    Tail(chars))

process_scene_ages ==
    /\ ipc.pc = "scene"
    /\ characters' = UpdateAges(characters, scene_chars[ipc.i])
    /\ ipc' = [ipc EXCEPT !.pc = "lines"]
    /\ UNCHANGED <<portraits, scene_chars, ptrest>>

\* _process_scene, a <dialogue character=char_name>: the DialogueEvent is
\* yielded with image_key = portrait_<tag of the name and its age>.
process_scene_dialogue(char_name) ==
    /\ ipc.pc = "lines"
    /\ ipc' = [ipc EXCEPT !.said =
                 [character |-> char_name,
                  age |-> DialogueAge(characters, char_name),
                  tracked |-> character_tag(char_name,
                                            DialogueAge(characters, char_name))
                                \in portraits]]
    /\ UNCHANGED <<characters, portraits, scene_chars, ptrest>>

\* The scene's stream ends; run pops the next scene.
process_scene_over ==
    /\ ipc.pc = "lines"
    /\ ipc' = [ipc EXCEPT !.pc = IF ipc.i < Len(scene_chars) THEN "scene"
                                 ELSE "done",
                          !.i = IF ipc.i < Len(scene_chars) THEN @ + 1 ELSE @]
    /\ UNCHANGED <<characters, portraits, scene_chars, ptrest>>

\* A fresh engine for a request: nothing cached, the roles preloaded.
InitCast ==
    /\ TMInitFresh
    /\ TrackerInit
    /\ ConsumerInit
    /\ PortraitIdle
    /\ AllResolve
    /\ voices = [k \in 1..NumCacheKeys |-> 0]
    /\ casting = NoCasting
    /\ characters \in Roles
    /\ portraits = {}
    /\ scene_chars \in Scripts
    /\ ipc = [pc |-> "infer", i |-> 1, said |-> NoSaid]

NextCast ==
    \/ infer_story_scene
    \/ infer_story_end
    \/ process_scene_ages
    \/ \E char_name \in Chars : process_scene_dialogue(char_name)
    \/ process_scene_over

SpecCast == InitCast /\ [][NextCast]_vars

\* ================================================================ claims

\* The event as the engine yielded it: the fields the consumer fills blank.
Unfilled(e) ==
    [e EXCEPT !.voice_url = "none", !.voice_duration = "none",
              !.image_url = "none", !.image_result = "none",
              !.audio_url = "none", !.background_url = "none",
              !.music_url = "none", !.ambient_url = "none"]

\* The same with only the url fields blank (and the result attached as
\* _portrait_result / _image_result, which is no field of the event's format).
UrlsBlank(e) ==
    [e EXCEPT !.voice_url = "none", !.image_url = "none",
              !.image_result = "none",
              !.audio_url = "none", !.background_url = "none",
              !.music_url = "none", !.ambient_url = "none"]

\* C1 as amended: the stream yields the emitted events, each once and in the
\* emitted order, changed only in the fields the consumer fills from the
\* resolved resources (the url fields, voice_duration, the attached image
\* result); when the stream ends or raises, all of them were yielded.
C1_OrderPreserved ==
    /\ Len(yielded) <= Len(emitted)
    /\ \A i \in 1..Len(yielded) : Unfilled(yielded[i]) = emitted[i]
    /\ cpc \in {"done", "raised"} => Len(yielded) = Len(emitted)

\* C1 witness: a stream that ended after yielding NumEvents events, one of
\* them with a field filled.
C1_Witness ==
    /\ cpc = "done"
    /\ Len(yielded) = NumEvents
    /\ \E i \in 1..Len(yielded) : yielded[i] # emitted[i]

\* C1 as stated: the same, with only the url fields allowed to differ.
C1_OnlyUrlsFilled ==
    /\ Len(yielded) <= Len(emitted)
    /\ \A i \in 1..Len(yielded) : UrlsBlank(yielded[i]) = emitted[i]
    /\ cpc \in {"done", "raised"} => Len(yielded) = Len(emitted)

RunningStatus == {t \in Tasks : info[t].status = "running"}

\* C2: the number of tasks whose persisted status is `running` never exceeds
\* the queue's max_jobs, whatever the number of worker loops.
C2_ConcurrencyBound == Cardinality(RunningStatus) <= MaxJobs

\* C4: retry_count <= max_tries for every task record, in every state.
C4_RetryBound == \A t \in Tasks : info[t].retry_count <= MaxTries

\* C5: once a record is `completed`, no step changes its status or result
\* (the record may only expire).
C5_CompletedIsFinal ==
    [][\A t \in Tasks :
          info[t].status = "completed" =>
              \/ info'[t] = Absent
              \/ /\ info'[t].status = "completed"
                 /\ info'[t].result = info[t].result]_vars

CountVia(q, via) == Cardinality({i \in 1..Len(q) : q[i].via = via})

\* A worker loop's BRPOP returns in this step.
Popped ==
    \E w \in Workers : wpc[w] = "brpop" /\ wpc'[w] \in {"get", "sem"}

\* C6: while a requeued retry waits in the queue, a pop never returns a task
\* that got there by submit_task: the retry is popped before every waiting
\* submission.
C6_RetryPriority ==
    [][(Popped /\ CountVia(queue, "retry") > 0)
          => CountVia(queue', "submit") = CountVia(queue, "submit")]_vars

\* C6 witness: a worker holds a popped retry while a submitted task that was
\* in the queue with it still waits.
C6_Witness ==
    \E w \in Workers :
        /\ wpc[w] \in {"get", "sem"}
        /\ wtask[w].via = "retry"
        /\ CountVia(queue, "submit") > 0

Occurrences(q, t) == Cardinality({i \in 1..Len(q) : q[i].id = t})

\* initialize() has returned and nothing else has run yet.
JustRecovered ==
    /\ mgr = "up"
    /\ \A w \in Workers : wpc[w] = "off"
    /\ \A t \in Tasks : subpc[t] # "lpush"

\* Nothing is left to do: the workers wait at BRPOP on an empty queue.
Quiescent ==
    /\ mgr = "up"
    /\ queue = <<>>
    /\ requeues = EmptyBag
    /\ \A w \in Workers : wpc[w] = "brpop"
    /\ \A t \in Tasks : subpc[t] # "lpush"

\* C7: with no record expired, after recovery every id found in the running
\* set is in the queue exactly once, pending, started_at cleared, and
\* out of the running set; once all work is done its record is terminal and
\* the running set does not hold it.
C7_RecoveryIdempotent ==
    /\ (JustRecovered /\ expired = 0) =>
         \A t \in rec.recovered :
             /\ Occurrences(queue, t) = 1
             /\ t \notin running_tasks
             /\ info[t] # Absent =>
                  info[t].status = "pending" /\ ~info[t].started_at
    /\ (Quiescent /\ expired = 0) =>
         \A t \in rec.recovered :
             /\ t \notin running_tasks
             /\ info[t] # Absent => Terminal(info[t])

\* Someone still has the task in hand: the queue, the running set, a worker
\* loop, a pending requeue, or the recovery that is under way.
InHand(t) ==
    \/ t \in QueueIds
    \/ t \in running_tasks
    \/ \E w \in Workers : wtask[w].id = t
    \/ \E r \in BagToSet(requeues) : r.tid = t
    \/ rec.tid = t
    \/ t \in rec.todo

\* C8: once the manager is started, a submitted task whose record has not
\* expired and is not terminal is never left with nobody holding it (it
\* would stay non-terminal forever).
C8_NoLostTask ==
    \A t \in Tasks :
        (mgr = "up" /\ subpc[t] = "done" /\ expired = 0
                    /\ ~Terminal(info[t]))
            => InHand(t)

C9_OneTaskPerKey ==
    [][\A k \in Keys :
         hist'.nsub[k] > hist.nsub[k] =>
            /\ hist.nsub[k] = 0
            /\ \A c \in Callers :
                  (calls[c].pc = "lpush" /\ calls'[c].pc = "hset"
                   /\ calls[c].key = k) => calls[c].fid = 0]_vars

\* C10: without a clear(key) in between, every get(key) that returns after
\* the key was settled returns that settlement's value (the default for an
\* error).
C10_SameOutcome == \A k \in Keys : ~hist.differ[k]

\* The keys of an event that the stream awaits, each with its url field.
Awaited(e) ==
    {p \in {<<e.voice_key, e.voice_url>>, <<e.image_key, e.image_url>>,
            <<e.audio_key, e.audio_url>>,
            <<e.background_key, e.background_url>>} : p[1] # 0}

\* The key's future ended without a result: set_exception (the poll loop's
\* report of a failed task) or the timeout's cancel.
Failed(k) ==
    /\ resources[k] # Untracked
    /\ fut[resources[k].fid].state \in {"error", "cancelled"}

\* C11: an event whose awaited key failed or timed out is yielded in its
\* position with that url field empty; the stream raises only the producer's
\* exception, and when it ends every emitted event was yielded.
C11_FailuresAbsorbed ==
    /\ \A i \in 1..Len(yielded) :
          /\ yielded[i].n = i
          /\ \A p \in Awaited(yielded[i]) : Failed(p[1]) => p[2] = "none"
    /\ cpc = "raised" => pev = ErrMark
    /\ cpc = "done" => Len(yielded) = Len(emitted)

\* C11 witness: the stream has ended normally; it yielded an event whose key
\* had failed or timed out, and went on to yield the events after it.
C11_Witness ==
    /\ cpc = "done"
    /\ \E i \in 1..Len(yielded) :
          /\ i < Len(yielded)
          /\ \E p \in Awaited(yielded[i]) : Failed(p[1]) /\ p[2] = "none"

\* C12: when the producer raised after emitting e1..ek, the stream does not
\* end as if complete; what it yields is a prefix of e1..ek in order and never
\* the exception itself; it raises only after it yielded all of e1..ek, with
\* the producer task over and nothing left to yield, and after the raise it
\* yields nothing more.
C12_ProducerFailureSurfaced ==
    /\ [](/\ (pev = ErrMark /\ ppc = "done") => cpc # "done"
          /\ \A i \in 1..Len(yielded) :
                i <= Len(emitted) /\ Unfilled(yielded[i]) = emitted[i]
          /\ cpc = "raised" =>
                /\ pev = ErrMark
                /\ ppc = "done"
                /\ chan = <<>>
                /\ Len(yielded) = Len(emitted))
    /\ [][cpc = "raised" => (cpc' = "raised" /\ yielded' = yielded)]_vars

\* C12 witness: the stream raised the producer's exception after yielding
\* the two events emitted before it.
C12_Witness ==
    /\ cpc = "raised"
    /\ Len(emitted) = 2
    /\ Len(yielded) = 2

\* The result is a portrait result (as an object, as a stored record's dict,
\* or as its JSON string).
IsPortrait(r) == r.resource_type = "portrait"

\* C13: for a Dialogue with emotion E and a portrait result with url_map M,
\* image_url is M[E] if E is in M, else M["default"] if present, else some
\* url of M, and it is empty only when M is empty.
C13_PortraitSelection ==
    (dpc = "yield" /\ IsPortrait(result)) =>
        LET M == result.url_map
            E == dialogue.emotion
        IN  IF HasKey(M, E) THEN dialogue.image_url = AtKey(M, E)
            ELSE IF HasKey(M, "default")
              THEN dialogue.image_url = AtKey(M, "default")
            ELSE IF M # <<>>
              THEN \E i \in 1..Len(M) : dialogue.image_url = M[i].url
            ELSE dialogue.image_url = "none"

\* C13 witness: the emotion is absent and the url of "default", which is not
\* the first entry and differs from it, was filled in.
C13_Witness ==
    /\ dpc = "yield"
    /\ IsPortrait(result)
    /\ Len(result.url_map) = 2
    /\ ~HasKey(result.url_map, dialogue.emotion)
    /\ result.url_map[2].key = "default"
    /\ result.url_map[1].url # result.url_map[2].url
    /\ dialogue.image_url = result.url_map[2].url

\* C14: when the dialogue's emotion is absent from the url_map and there is no
\* "default" entry, the "normal" variant is chosen when it exists.
C14_NormalFallback ==
    (/\ dpc = "yield"
     /\ IsPortrait(result)
     /\ dialogue.emotion # ""
     /\ ~HasKey(result.url_map, dialogue.emotion)
     /\ ~HasKey(result.url_map, "default")
     /\ HasKey(result.url_map, "normal"))
    => dialogue.image_url = AtKey(result.url_map, "normal")

\* The stream has ended and no download coroutine is running.
DownloadsSettled ==
    /\ opc = "ended"
    /\ \A d \in DlIds : downloads[d].pc \in {"free", "done"}

\* C15: once the stream has ended and all downloads have settled, the emotion
\* variants written for the key are exactly the emotions that some yielded
\* Dialogue referenced (those the url_map has), or all variants when no
\* Dialogue had been seen as the urls became available. Stated for runs in
\* which every Dialogue was yielded with the portrait result in hand.
C15_OnDemandPortraits ==
    (DownloadsSettled /\ ohist.n > 0 /\ ~ohist.timeouts) =>
        \/ written = ohist.seen \cap Labels(result.url_map)
        \/ ohist.early /\ written = Labels(result.url_map)

\* Item d is a dialogue that references a voice key which was never
\* downloaded.
VoiceMissing(d) ==
    \E i \in 1..Len(script_lines) :
        /\ script_lines[i].item = d
        /\ script_lines[i].kind = "voice"
        /\ audio_files[script_lines[i].key] = "absent"
        /\ \E j \in 1..Len(script_lines) :
              script_lines[j].item = d /\ script_lines[j].kind = "show"

\* C16: generate_script drops the voice line of a dialogue whose voice file
\* is missing together with that dialogue's show and hide lines.
C16_MissingVoiceDropsShowHide ==
    spc = "done" =>
        \A d \in Items :
            VoiceMissing(d) =>
                \A i \in 1..Len(script) :
                    script[i].item = d =>
                        script[i].kind \notin {"voice", "show", "hide"}

\* C17: a task whose function name cannot be resolved is marked failed on its
\* first attempt, with no retry scheduled: it is never RETRYING and no
\* _delayed_requeue is created for it.
C17_UnknownFunctionFailsAtOnce ==
    \A t \in unknown :
        /\ info[t].status # "retrying"
        /\ \A r \in BagToSet(requeues) : r.tid # t

\* C18: with the stream loop draining the queue and no task ever completing,
\* the engine emits every event it took up and then the end of the story: the
\* producer task always finishes normally, every submitted task still
\* pending.
C18_ProducerNeverWaitsForTasks ==
    /\ [](\A t \in Tasks : info[t].status \in {"absent", "pending"})
    /\ <>(ppc = "done" /\ pev = EndMark)
    /\ [](ppc \in {"voice_id", "voice_wait", "submit", "submitting", "yield"}
            => <>(emitted # <<>> /\ emitted[Len(emitted)] = pev))

\* C18 witness: the story ended after the engine emitted all its events,
\* a dialogue among them, with a submitted task still pending.
C18_Witness ==
    /\ ppc = "done"
    /\ pev = EndMark
    /\ Len(emitted) = NumEvents
    /\ \E t \in Tasks : info[t].status = "pending"
    /\ \E i \in 1..Len(emitted) : emitted[i].event_type = "dialogue"

\* The resource keys an event carries, each with its url field.
Carried(e) ==
    {p \in {<<e.voice_key, e.voice_url>>, <<e.image_key, e.image_url>>,
            <<e.audio_key, e.audio_url>>, <<e.sound_key, e.audio_url>>,
            <<e.background_key, e.background_url>>,
            <<e.music_key, e.music_url>>,
            <<e.ambient_key, e.ambient_url>>} : p[1] # 0}

\* The key's future is settled with a result.
HasResult(k) ==
    /\ resources[k] # Untracked
    /\ fut[resources[k].fid].state = "result"

\* C19: when an event is yielded, the url field of every key it carries that
\* has settled with a result is filled.
C19_EveryKeyResolved ==
    [][yielded' = Append(yielded, cur) =>
          \A p \in Carried(cur) : HasResult(p[1]) => p[2] # "none"]_vars

\* C20: in every reachable state, a task whose persisted status is running
\* has its id in tasks:running:<queue>.
C20_RunningSetInvariant ==
    \A t \in Tasks : info[t].status = "running" => t \in running_tasks

\* The status moves the state machine of a task record allows.
StatusMoves ==
    {<<"pending", "running">>, <<"running", "completed">>,
     <<"running", "failed">>, <<"running", "retrying">>,
     <<"retrying", "pending">>, <<"pending", "retrying">>}

\* The record of task t changes its status in this step.
StatusMoved(t) ==
    /\ info[t] # Absent
    /\ info'[t] # Absent
    /\ info'[t].status # info[t].status

\* C21: a task record's status only moves pending -> running -> {completed,
\* failed}, with retrying <-> pending the only backward moves; completed and
\* failed are never left.
C21_MonotonicStatus ==
    [][\A t \in Tasks :
          StatusMoved(t) => <<info[t].status, info'[t].status>> \in StatusMoves]_vars

\* The resource keys of an event that are built from a sequence id or a
\* scene index.
SeqKeys(e) == {e.voice_key, e.sound_key, e.music_key, e.ambient_key} \ {<<>>}

\* C22: sequence ids (scene index followed by event ordinal) strictly
\* increase in emission order within a request, so no two events of a request
\* share a sequence id (event id) or a resource key built from one.
C22_SequenceIdsUnique ==
    \A i, j \in 1..Len(out) :
        i < j => /\ out[i].event_id # out[j].event_id
                 /\ SeqKeys(out[i]) \cap SeqKeys(out[j]) = {}

\* S1: a new request, the planner returns one chapter holding one scene, the
\* scene script holds one dialogue, and no chunk is malformed.
PlannerThenOneScene ==
    /\ cache0 = Found(FALSE, <<>>, <<>>)
    /\ planned = <<1>>
    /\ shape.lines = 1
    /\ shape.tag = "dialogue"
    /\ parser # "broken"

\* C23: in S1 the engine yields exactly StoryStart, ChapterStart 1,
\* SceneStart with index "11" and a background key, Dialogue with voice_key
\* "voice_111" and a portrait key, StoryEnd: the event ordinal counts the
\* scene's narrative events from 1.
C23_PlannerThenOneScene ==
    (PlannerThenOneScene /\ rpc = "done") =>
        /\ [i \in 1..Len(out) |-> out[i].event_type] =
              <<"story_start", "chapter_start", "scene_start", "dialogue",
                "story_end">>
        /\ out[2].event_id = <<"chapter", <<1>>>>
        /\ out[3].event_id = <<"scene", <<1, 1>>>>
        /\ out[3].background_key = <<"bg", "bg_id">>
        /\ out[4].voice_key = <<"voice", <<1, 1, 1>>>>
        /\ out[4].image_key = <<"portrait", "tag">>

\* think, script and a non-empty storylets queue were found in the cache.
Resumed ==
    /\ cache0.think
    /\ cache0.script # <<>>
    /\ cache0.storylets # <<>>

\* C24: on resumption run() makes no plan-story request, does not enqueue
\* the outline again, and processes the work items from the head of the
\* storylets it found.
C24_Resumption ==
    Resumed => /\ plans = 0
               /\ popped \o storylets = cache0.storylets

C24_Witness ==
    /\ Resumed
    /\ rpc = "done"
    /\ Len(popped) = 2
    /\ popped[1] = Head(cache0.storylets)
    /\ popped[1].tag = "scene"

\* What a task record settles a handle with: "result" on completed, "error"
\* on failed or not found, nothing otherwise.
RecordSettles(ti) ==
    IF ti = Absent \/ ti.status = "failed" THEN "error"
    ELSE IF ti.status = "completed" THEN "result"
    ELSE "pending"

\* C25: a tracker initialised for a request id whose hash holds key ->
\* task id has the key registered with an unsettled handle carrying that task
\* id, and its poll loop settles a pending task-backed handle from the task's
\* record: result on completed, error on failed or not found.
C25_PersistenceRoundTrip ==
    /\ [][hist'.inits > hist.inits =>
            \A k \in Keys :
                persisted[k] # NoTask =>
                    /\ resources'[k] # Untracked
                    /\ resources'[k].task = persisted[k]
                    /\ fut'[resources'[k].fid] = Pending]_vars
    /\ [][(poll.pc = "status" /\ poll'.pc = "iter"
           /\ fut[poll.cur.fid].state = "pending") =>
            fut'[poll.cur.fid].state = RecordSettles(info[poll.cur.task])]_vars

C25_Witness ==
    /\ hist.inits = 1
    /\ \E k \in Keys :
          /\ hist.recovered[k] # NoTask
          /\ resources[k].task = hist.recovered[k]
          /\ fut[resources[k].fid] = Done("result", "task")

\* Worker loops that are inside `async with queue_manager.semaphore`.
HoldingSlot ==
    {w \in Workers : wpc[w] \in {"get", "setex_running", "sadd", "call",
                                 "setex_retrying", "srem", "setex_final"}}

\* C26: with workers running and task functions that return, every task
\* submitted to a queue eventually reaches completed; every slot taken from
\* the semaphore is held by an execution under way and given back at its end.
C26_QueueLiveness ==
    /\ \A t \in Tasks : (subpc[t] # "none") ~> (info[t].status = "completed")
    /\ [](semaphore + Cardinality(HoldingSlot) = MaxJobs)

C26_Witness ==
    /\ \A t \in Tasks : info[t].status = "completed"
    /\ semaphore = MaxJobs
    /\ \A w \in Workers : wpc[w] = "brpop"

\* C27: a task whose function fails k times (k < max_tries) and then
\* succeeds ends completed with retry_count = k after exactly k requeues;
\* the i-th requeue is delayed by retry_delays[i-1], the last delay being
\* used again past the end of the list, and every requeue is pushed on the
\* end of the queue that BRPOP pops.
NthDelay(i) ==
    IF i > Len(retry_delay) THEN retry_delay[Len(retry_delay)]
                            ELSE retry_delay[i]

RetriedThenDone(t) ==
    /\ rqhist[t].fails = info[t].retry_count
    /\ rqhist[t].fails < MaxTries
    /\ rqhist[t].pushed = rqhist[t].fails
    /\ Len(rqhist[t].delays) = rqhist[t].fails
    /\ \A i \in 1..Len(rqhist[t].delays) : rqhist[t].delays[i] = NthDelay(i)

RequeuedAtPopEnd(t) ==
    rqhist'[t].pushed # rqhist[t].pushed
        => /\ queue' # <<>>
           /\ PopEnd(queue') = Entry(t, "retry")
           /\ PopRest(queue') = queue

OrphanSkipped(t) ==
    /\ mgr = "recovering"
    /\ t \in rec.todo
    /\ t \notin rec'.todo
    /\ info[t] = Absent

C28_OrphanCleanup ==
    /\ [][\A t \in Tasks : OrphanSkipped(t) =>
              /\ t \notin running_tasks'
              /\ queue' = queue]_vars
    /\ [][mgr = "recovering" /\ mgr' = "up" =>
              \A t \in running_tasks' : info'[t] # Absent]_vars

\* C29: an XML syntax error while a scene is expanded ends only that scene:
\* the events already emitted stay in the stream, the parser is reset for the
\* next scene, the loop goes on with the work items that are left, and the
\* stream still ends with StoryEnd once the queue is empty.
SceneFails == rpc = "scene" /\ parser' = "broken"

EmittedKept == Len(out) <= Len(out') /\ SubSeq(out', 1, Len(out)) = out

C29_SceneErrorIsolated ==
    /\ [][EmittedKept]_vars
    /\ [][SceneFails => out' = out /\ rpc' = "loop"
                          /\ storylets' = storylets]_vars
    /\ [][rpc = "loop" /\ rpc' = "scene" => parser' = "clean"]_vars
    /\ [](parser = "broken" => rpc # "scene")
    /\ [](rpc = "done" => /\ storylets = <<>>
                          /\ out # <<>>
                          /\ out[Len(out)] = StoryEndEvent)

\* The first scene failed after its SceneStart, the second was expanded.
C29_Witness ==
    /\ rpc = "done"
    /\ shape.root
    /\ shape.lines = 1
    /\ shape.tag = "dialogue"
    /\ \E i \in 1..(Len(out) - 3) :
          /\ out[i].event_type = "scene_start"
          /\ out[i + 1].event_type = "scene_start"
          /\ out[i + 2].event_type = "dialogue"
          /\ out[Len(out)] = StoryEndEvent

\* C30: after shutdown() is called a worker whose loop iteration has ended
\* pops no new task id, every execution under way runs to its normal
\* settlement (completed, failed or retrying persisted, the id taken out of
\* the running set), and shutdown() then returns.
Executing(w) == wpc[w] \notin {"off", "brpop", "stopped"}

ShutdownCalled == mgr \in {"stopping", "closed"}

TaskSettled(t) ==
    /\ t \notin running_tasks
    /\ info[t] # Absent => info[t].status # "running"

C30_GracefulShutdown ==
    /\ [][\A w \in Workers :
            ShutdownCalled /\ wpc[w] # "brpop" => wpc'[w] # "brpop"]_vars
    /\ [][\A w \in Workers : \A t \in Tasks :
            ShutdownCalled /\ wtask[w].id = t /\ Executing(w) /\ ~Executing(w)'
                => TaskSettled(t)']_vars
    /\ [](mgr = "closed" =>
            /\ \A w \in Workers : ~Executing(w) /\ wpc[w] # "brpop"
            /\ \A t \in Tasks : TaskSettled(t)
            /\ semaphore = MaxJobs)
    /\ (mgr = "stopping" ~> mgr = "closed")

\* shutdown() was called while one loop was executing a task and the other
\* was in BRPOP: the first is about to settle it, the second has ended and
\* left an id in the queue.
C30_Witness ==
    /\ mgr = "stopping"
    /\ queue # <<>>
    /\ \E w, v \in Workers :
          /\ wpc[w] = "setex_final"
          /\ winfo[w].status = "completed"
          /\ wpc[v] = "stopped"

\* C31: whenever has_active_tasks returns false, no submitted task is still
\* waiting (in the queue, for a scheduled retry, or popped by a worker and
\* not yet started) or executing; stated for the tasks that were so when
\* the call was made.
C31_HasActiveTasks ==
    [][active.pc = "scard" /\ active'.ret = "false"
          => \A t \in active.began : ~StillActive(t)]_vars

\* C32: a task whose function fails on every attempt is executed exactly
\* max_tries times; its record is then failed with retry_count = max_tries
\* and completed_at set, and it is never requeued again.
IsFailed(t) == info[t] # Absent /\ info[t].status = "failed"

TimesOut(c) ==
    /\ calls[c].op = "get"
    /\ calls[c].pc = "wait"
    /\ calls[c].key \in Keys
    /\ ~IsDone(calls[c].fid)
    /\ calls'[c] = NoCall
    /\ resources[calls[c].key] = Tracked(calls[c].fid, resources[calls[c].key].task)
    /\ resources[calls[c].key].task # NoTask

C33_TimeoutSurrendersOnly ==
    [][\A c \in Callers : TimesOut(c) =>
          /\ info' = info
          /\ queue' = queue
          /\ running_tasks' = running_tasks
          /\ resources' = resources
          /\ fut'[calls[c].fid] = Pending]_vars

\* C34: a submit to a queue that is not configured raises and changes
\* nothing: no task record, no id in a queue, and through the tracker no
\* handle and no persisted mapping for the key (a key whose handle is pending
\* gets that handle back, as for any queue).
Refusal == hist'.refused # hist.refused

Cast == casting'.n # casting.n
CastKey == casting'.last.cache_key
CastVoice == casting'.last.voice_id
CastResults == casting'.last.results
Candidates == {CastResults[i] : i \in 1..Len(CastResults)}

\* C35, as stated: a call never returns a voice_id that another character
\* already got while the search offers a voice_id that is not assigned.
C35_CharactersNeverShare ==
    [][Cast /\ CastVoice # 0
          /\ (\E c \in Chars : c # casting'.last.name
                                 /\ casting.got[c] = CastVoice)
          => Candidates \subseteq VoiceValues(voices)]_vars

\* C35, amended: the unit of deduplication is the cache key (voice
\* description, gender, age). A key that is cached returns its voice_id; a
\* new key gets the first candidate that no key has, and that is cached; the
\* first result is returned, uncached, only when every candidate is taken;
\* so two keys never share a voice_id while a free candidate exists, and the
\* cached map stays injective.
C35_VoiceDeduplication ==
    /\ [](\A a, b \in CacheKeys :
            voices[a] # 0 /\ voices[a] = voices[b] => a = b)
    /\ [][Cast /\ voices[CastKey] # 0 =>
            CastVoice = voices[CastKey] /\ voices' = voices]_vars
    /\ [][Cast /\ voices[CastKey] = 0 /\ CastVoice # 0 =>
            /\ CastVoice \in Candidates
            /\ \/ /\ CastVoice \notin VoiceValues(voices)
                  /\ voices' = [voices EXCEPT ![CastKey] = CastVoice]
                  /\ \A i \in 1..Len(CastResults) :
                        CastResults[i] = CastVoice =>
                          \A j \in 1..(i - 1) :
                              CastResults[j] \in VoiceValues(voices)
               \/ /\ Candidates \subseteq VoiceValues(voices)
                  /\ CastVoice = CastResults[1]
                  /\ voices' = voices]_vars
    /\ [][Cast /\ CastVoice = 0 =>
            CastResults = <<>> /\ voices' = voices]_vars

\* A new cache key met a first candidate that another key has, and got the
\* second one, which is cached.
C35_Witness ==
    /\ Len(casting.last.results) = 2
    /\ casting.last.voice_id = casting.last.results[2]
    /\ voices[casting.last.cache_key] = casting.last.voice_id
    /\ \E k \in CacheKeys : /\ k # casting.last.cache_key
                             /\ voices[k] = casting.last.results[1]

\* self._semaphore = asyncio.Semaphore(10): the download concurrency.
DownloadConcurrency == 10

\* The download coroutines of the resource key that exist (created and not
\* returned), and those that are in their loop over the urls.
DownloadTasks == {d \in DlIds : downloads[d].pc \notin {"free", "done"}}
Downloading == {d \in DlIds : downloads[d].pc = "loop"}

\* C36: at most DownloadConcurrency file downloads are in progress, and of
\* one resource key at most one download task exists.
C36_BoundedDownloads ==
    /\ Cardinality(Downloading) <= DownloadConcurrency
    /\ Cardinality(DownloadTasks) <= 1

\* C37: the image_key of every Dialogue that is yielded names a portrait
\* that was given to tracker.submit, so the key has a handle backed by a
\* task.
C37_NoDanglingKey == ipc.said # NoSaid => ipc.said.tracked

\* A worker loop that has begun an attempt of task t whose function has not
\* returned yet.
Attempting(w, t) ==
    wtask[w].id = t /\ wpc[w] \in {"setex_running", "sadd", "call"}

\* The record of t is the one written at the end of its last attempt.
LastWritten(t) ==
    info[t] # Absent /\ info[t].status \in {"completed", "failed"}

\* C38: a task id is executed by at most one worker at a time, it is not in
\* the queue while it is executed, and the record written at the end of its
\* last attempt is not overwritten with the state of an older attempt.
C38_SingleExecution ==
    /\ [](\A t \in Tasks :
            /\ Cardinality({w \in Workers : Attempting(w, t)}) <= 1
            /\ (\E w \in Workers : Attempting(w, t)) => t \notin QueueIds)
    /\ [][\A t \in Tasks : LastWritten(t) => info'[t] = info[t]]_vars

\* The events _process_scene yields for the scene `index`, from its first.
RECURSIVE SceneOutput(_, _, _)
SceneOutput(xml, index, event_idx) ==
    IF xml = <<>> THEN <<>>
    ELSE SceneEvents(Head(xml), index, event_idx + 1, shape)
         \o SceneOutput(Tail(xml), index, event_idx + 1)

\* The list `part` occurs in the list `whole`, from place k + 1 on.
OccursAt(part, whole, k) ==
    /\ k + Len(part) <= Len(whole)
    /\ SubSeq(whole, k + 1, k + Len(part)) = part

\* The scene items of the outline, in outline order.
SceneItems ==
    SelectSeq(EnqueueItems(story_script), LAMBDA it : it.tag = "scene")

\* Some run was stopped while it expanded a scene.
Interrupted == Runs > 1

\* C39: when the runs of a request are over, one of them stopped while a
\* scene was expanded, every scene of the outline has had its events
\* emitted in full, and in outline order.
C39_NoSceneLost ==
    rpc = "done" /\ Interrupted =>
      /\ \A i \in 1..Len(SceneItems) :
            \E k \in 0..Len(out) :
                OccursAt(SceneOutput(XmlStream(shape), SceneItems[i].index, 0),
                         out, k)
      /\ \A i, j \in 1..Len(SceneItems) :
            i < j =>
              \E k, m \in 0..Len(out) :
                  /\ k <= m
                  /\ OccursAt(SceneOutput(XmlStream(shape),
                                          SceneItems[i].index, 0), out, k)
                  /\ OccursAt(SceneOutput(XmlStream(shape),
                                          SceneItems[j].index, 0), out, m)

\* The task of t is in progress: its record is there and is not terminal.
InProgress(t) == info[t] # Absent /\ ~Terminal(info[t])

\* C40: once a story stream has begun for the request again, no task in
\* progress loses its record, and a key that is tracked with a task settles
\* with an error only when that task has failed.
C40_RequestIsolation ==
    /\ [][\A t \in Tasks : InProgress(t) => info'[t] # Absent]_vars
    /\ [](\A k \in Keys :
            /\ resources[k] # Untracked
            /\ resources[k].task # NoTask
            /\ fut[resources[k].fid].state = "error"
            => /\ info[resources[k].task] # Absent
               /\ info[resources[k].task].status = "failed")

====
